---- MODULE Spec2Model ----
(***************************************************************************)
(* A model of tanshin_lib: the table interpretation pipeline of            *)
(* financial_analyzer.py and pdf_parser.py.                                *)
(*                                                                         *)
(* Strings.  A Python str is modelled as a sequence of characters, each    *)
(* character a TLA+ string.  An ASCII character stands for itself ("1",    *)
(* "~", "F").  A character outside ASCII is written by a name:             *)
(*   "nen"  U+5E74 (year)      "ki"   U+671F (period)  "do"   U+5EA6       *)
(*   "tsuu" U+901A             "shi"  U+56DB           "han"  U+534A       *)
(*   "gatsu" U+6708 (month)                                                *)
(*   "hyaku" U+767E  "man" U+4E07  "en" U+5186  "sen" U+92AD  "chi" U+5343 *)
(*   "zou"  U+5897   "gen" U+6E1B  "ritsu" U+7387                          *)
(*   "mae"  U+524D   "hi"  U+6BD4  "tai" U+5BFE   "dou" U+540C             *)
(*   "uri"  U+58F2   "ue"  U+4E0A  "taka" U+9AD8  (uri-ue-taka: net sales) *)
(*   "tri"  U+25B3 (white triangle)   "btri" U+25B2 (black triangle)       *)
(*   "fwminus" U+FF0D  "fwplus" U+FF0B  "fwtilde" U+FF5E  "fwpct" U+FF05   *)
(*   "fwsp" U+3000  "fwlp" U+FF08  "fwrp" U+FF09                           *)
(*   "minus" U+2212  "hbar" U+2015  "yen" U+00A5                           *)
(*   "NL" line feed  "TAB" tab    "fw0".."fw9" U+FF10..U+FF19              *)
(* Any other character outside ASCII is written "u" and its code point:    *)
(* "u6CE8" is U+6CE8 (chuu, note), "u7D4C","u55B6","u6210","u7E3E" are     *)
(* kei-ei-sei-seki (results of operations), "u696D","u7E3E" gyou-seki      *)
(* (performance), "u4E88","u60F3" yo-sou (forecast).                       *)
(* Sequences are indexed from 1: column 0 of the source is index 1 here.   *)
(***************************************************************************)
EXTENDS Integers, Sequences, FiniteSets, TLC

VARIABLES
    final_column_headers,  \* parse_financial_table: the column names
    header_texts,          \* the header text given for each data column so far
    queued_labels,         \* parse_financial_table: the period-label queue
    persistent_pending_range_starts, \* per header: the pending range start
    extracted_records,     \* parse_financial_table: the records so far
    rows_seen,             \* the data rows processed so far, in order
    pending_owner,         \* per header: the index of the record of the row that stored the start
    range_uses,            \* the uses of a stored start: header, start, owner, record holding the range
    parse_df,              \* parse_financial_table: the grid given (df)
    parse_pc,              \* "idle", "call" (before the call) or "done" (returned)
    parse_result,          \* parse_financial_table: the list returned
    expand_in,             \* expand_multiline_table: the source rows processed so far
    expanded_rows,         \* expand_multiline_table: the output rows so far
    expand_emitted,        \* per source row: the output rows emitted for it
    title_words,           \* get_table_title: the words of the page (all_words)
    title_pc,              \* "idle", "page" (before the call) or "done" (returned)
    title_result,          \* get_table_title: the title returned, or None
    a_pc,                  \* analyze_pdf_url: the position in the function
    pdf_target,            \* analyze_pdf_url: the argument pdf_target
    a_local_exists,        \* whether a file exists at a local pdf_target
    ticker,                \* analyze_pdf_url: the argument and local ticker
    verbose,               \* analyze_pdf_url: the argument verbose
    temp_files,            \* the temporary files that exist on disk
    temp_file_path,        \* analyze_pdf_url: the local temp_file_path
    extracted_tables_info, \* analyze_pdf_url: the tables extracted
    a_idx,                 \* the index of the next item of the loop of line 318
    parsed_records,        \* analyze_pdf_url: the local parsed_records
    a_return,              \* the value of the return statement reached
    a_result,              \* the rows of the DataFrame the caller receives
    a_io,                  \* the boundary I/O calls made, in order
    norm_in,               \* the cell text given to the normalization
    norm_once,             \* the cell text normalized
    norm_twice,            \* the normalized text normalized again
    norm_count,            \* how many times the normalization was applied
    page_tables,           \* extract_all_tables_as_df: per page, its tables
    page_idx,              \* extract_all_tables_as_df: the page being processed
    table_in_page_idx,     \* the table of the page being processed
    previous_table_title,  \* extract_all_tables_as_df: the local of that name
    previous_table_y1,     \* extract_all_tables_as_df: the local of that name
    assigned_titles        \* per page, the title assigned to each table so far

rowVars == <<queued_labels, persistent_pending_range_starts, extracted_records,
             rows_seen, pending_owner, range_uses>>
headerVars == <<final_column_headers, header_texts>>
parseVars == <<parse_df, parse_pc, parse_result>>
expandVars == <<expand_in, expanded_rows, expand_emitted>>
titleVars == <<title_words, title_pc, title_result>>
analyzeVars == <<a_pc, pdf_target, a_local_exists, ticker, verbose, temp_files,
                 temp_file_path, extracted_tables_info, a_idx, parsed_records,
                 a_return, a_result, a_io>>
normVars == <<norm_in, norm_once, norm_twice, norm_count>>
extractVars == <<page_tables, page_idx, table_in_page_idx, previous_table_title,
                 previous_table_y1, assigned_titles>>

----------------------------------------------------------------------------
(* Characters and strings *)

Digits == {"0", "1", "2", "3", "4", "5", "6", "7", "8", "9"}

\* Python's str.strip() and the regex class \s: Unicode white space
SpaceChars == {" ", "fwsp", "NL", "TAB"}
IsSpace(c) == c \in SpaceChars

RECURSIVE LStrip(_)
LStrip(s) == IF s = <<>> THEN s
             ELSE IF IsSpace(Head(s)) THEN LStrip(Tail(s)) ELSE s

RECURSIVE RStrip(_)
RStrip(s) == IF s = <<>> THEN s
             ELSE IF IsSpace(s[Len(s)]) THEN RStrip(SubSeq(s, 1, Len(s) - 1)) ELSE s

\* str.strip()
Strip(s) == RStrip(LStrip(s))

\* whether t occurs in s at index p
OccursAt(s, t, p) == /\ p >= 1
                     /\ p + Len(t) - 1 <= Len(s)
                     /\ SubSeq(s, p, p + Len(t) - 1) = t

\* Python's "t in s"
Contains(s, t) == \E p \in 1..(Len(s) + 1) : OccursAt(s, t, p)

\* str.replace(old, new): leftmost non-overlapping occurrences, old non-empty
RECURSIVE Replace(_, _, _)
Replace(s, old, new) ==
    IF s = <<>> THEN <<>>
    ELSE IF OccursAt(s, old, 1)
         THEN new \o Replace(SubSeq(s, Len(old) + 1, Len(s)), old, new)
         ELSE <<Head(s)>> \o Replace(Tail(s), old, new)

\* the end (exclusive) of the longest run of characters of set cls from p
RECURSIVE RunEnd(_, _, _)
RunEnd(s, p, cls) ==
    IF p <= Len(s) /\ s[p] \in cls THEN RunEnd(s, p + 1, cls) ELSE p

NumChars == Digits \cup {",", "."}
SepChars == {"~", "-"}

\* [-]?[0-9,.]+ at index p: the end (exclusive) of the match, 0 when none
MatchNumAt(s, p) ==
    LET d == IF p <= Len(s) /\ s[p] = "-" THEN p + 1 ELSE p
        e == IF d <= Len(s) + 1 THEN RunEnd(s, d, NumChars) ELSE d
    IN  IF e > d THEN e ELSE 0

----------------------------------------------------------------------------
(* Cell values: None, a float, or a str *)

NoneV == [t |-> "None", s |-> <<>>, neg |-> FALSE, mant |-> 0, scale |-> 0]
StrV(x) == [t |-> "str", s |-> x, neg |-> FALSE, mant |-> 0, scale |-> 0]
\* the float (-1)^neg * mant / 10^scale, mant not a multiple of 10 unless scale = 0
FloatV(n, m, sc) == [t |-> "float", s |-> <<>>, neg |-> n, mant |-> m, scale |-> sc]

DigitVal(c) == CHOOSE n \in 0..9 : <<"0", "1", "2", "3", "4", "5", "6", "7", "8", "9">>[n + 1] = c

RECURSIVE ToNat(_)
ToNat(ds) == IF ds = <<>> THEN 0
             ELSE 10 * ToNat(SubSeq(ds, 1, Len(ds) - 1)) + DigitVal(ds[Len(ds)])

RECURSIVE StripZeros(_)
StripZeros(ds) == IF ds # <<>> /\ ds[Len(ds)] = "0"
                  THEN StripZeros(SubSeq(ds, 1, Len(ds) - 1)) ELSE ds

\* whether float(s) succeeds for a string s over "-", digits and "."
FloatOk(s) ==
    LET body == IF s # <<>> /\ s[1] = "-" THEN Tail(s) ELSE s
        dots == {p \in 1..Len(body) : body[p] = "."}
    IN  /\ \A p \in 1..Len(body) : body[p] \in Digits \cup {"."}
        /\ Cardinality(dots) <= 1
        /\ \E p \in 1..Len(body) : body[p] \in Digits

\* float(s), for FloatOk(s); -0.0 and 0.0 are one value (they compare equal)
ParseFloat(s) ==
    LET isneg == s[1] = "-"
        body == IF isneg THEN Tail(s) ELSE s
        dot == IF \E p \in 1..Len(body) : body[p] = "."
               THEN CHOOSE p \in 1..Len(body) : body[p] = "." ELSE Len(body) + 1
        ip == SubSeq(body, 1, dot - 1)
        fp == StripZeros(SubSeq(body, dot + 1, Len(body)))
        m == ToNat(ip \o fp)
    IN  FloatV(isneg /\ m # 0, m, Len(fp))

----------------------------------------------------------------------------
(* parse_financial_table, Step 3: the data rows *)

\* the key of the period in a record
PeriodKey == <<"p", "e", "r", "i", "o", "d">>

\* line 120: the row label holds a period marker
IsPeriodLabel(row_label_text) ==
    \/ Contains(row_label_text, <<"nen">>)
    \/ Contains(row_label_text, <<"ki">>)
    \/ Contains(row_label_text, <<"tsuu", "ki">>)
    \/ Contains(row_label_text, <<"nen", "do">>)

\* line 125: a data cell holds a digit or is a bare dash
HasNumericData(cells) ==
    \E c \in 2..Len(cells) :
        \/ \E p \in 1..Len(cells[c]) : cells[c][p] \in Digits
        \/ cells[c] \in {<<"-">>, <<"fwminus">>, <<"hbar">>, <<"minus">>}

\* lines 148-149
NormalizeCell(cell_value_raw) ==
    Replace(Replace(Replace(Replace(Replace(Replace(cell_value_raw,
        <<"tri">>, <<"-">>), <<"btri">>, <<"-">>), <<"fwminus">>, <<"-">>),
        <<"fwplus">>, <<>>), <<"+">>, <<>>), <<"fwtilde">>, <<"~">>)

\* the cell normalization as a function of the raw cell: the cell is trimmed
\* (line 124) and then the glyphs are replaced (lines 148-149)
Normalize(cell) == NormalizeCell(Strip(cell))

\* ([-]?[0-9,.]+)\s*[~-]\s*([-]?[0-9,.]+) matched at index p:
\* <<group 1, group 2>>, or <<>> when there is no match at p
FullRangeAt(s, p) ==
    LET e1 == MatchNumAt(s, p)
        w1 == IF e1 = 0 THEN 0 ELSE RunEnd(s, e1, SpaceChars)
        sep == e1 # 0 /\ w1 <= Len(s) /\ s[w1] \in SepChars
        w2 == IF sep THEN RunEnd(s, w1 + 1, SpaceChars) ELSE 0
        e2 == IF sep THEN MatchNumAt(s, w2) ELSE 0
    IN  IF e2 # 0 THEN <<SubSeq(s, p, e1 - 1), SubSeq(s, w2, e2 - 1)>> ELSE <<>>

\* the leftmost match of the full range pattern at an index from p on
RECURSIVE FullRangeFrom(_, _)
FullRangeFrom(s, p) ==
    IF p > Len(s) THEN <<>>
    ELSE LET m == FullRangeAt(s, p)
         IN  IF m # <<>> THEN m ELSE FullRangeFrom(s, p + 1)

\* re.search of the full range pattern (line 156)
FullRangeSearch(s) == FullRangeFrom(s, 1)

\* re.fullmatch of ([-]?[0-9,.]+)\s*[~-] (line 163): <<group 1>> or <<>>
PartialRangeStart(s) ==
    LET e1 == MatchNumAt(s, 1)
        w1 == IF e1 = 0 THEN 0 ELSE RunEnd(s, e1, SpaceChars)
    IN  IF e1 # 0 /\ w1 = Len(s) /\ s[w1] \in SepChars
        THEN <<SubSeq(s, 1, e1 - 1)>> ELSE <<>>

\* re.fullmatch of ([-]?[0-9,.]+) (lines 170, 189)
PlainNumber(s) == s # <<>> /\ MatchNumAt(s, 1) = Len(s) + 1

\* re.fullmatch of [~-]\s*([-]?[0-9,.]+) (line 178): <<group 1>> or <<>>
PartialRangeEnd(s) ==
    LET w == IF s # <<>> /\ s[1] \in SepChars THEN RunEnd(s, 2, SpaceChars) ELSE 0
    IN  IF w # 0 /\ MatchNumAt(s, w) = Len(s) + 1
        THEN <<SubSeq(s, w, Len(s))>> ELSE <<>>

\* line 197: a bare unit word
UnitWords == {<<"hyaku", "man", "en">>, <<"chi", "en">>, <<"en", "sen">>,
              <<"fwpct">>, <<"%">>, <<"en">>, <<"sen">>}

\* lines 150-201 for one cell, normalized_val being its normalized text
ClassifyNormalized(cell_value_raw, pending, normalized_val) ==
    LET full == FullRangeSearch(normalized_val)
        pstart == PartialRangeStart(normalized_val)
        pend == PartialRangeEnd(normalized_val)
        stripped == Replace(normalized_val, <<",">>, <<>>)
    IN  IF normalized_val = <<>> \/ normalized_val \in
              {<<"-">>, <<"hbar">>, <<"minus">>, <<"n", "a", "n">>, <<"N", "o", "n", "e">>}
        THEN [val |-> NoneV, pending |-> NoneV, meaningful |-> FALSE, used |-> FALSE]
        ELSE IF full # <<>>
        THEN [val |-> StrV(full[1] \o <<"~">> \o full[2]), pending |-> NoneV,
              meaningful |-> TRUE, used |-> FALSE]
        ELSE IF pstart # <<>>
        THEN [val |-> StrV(normalized_val), pending |-> StrV(pstart[1]),
              meaningful |-> TRUE, used |-> FALSE]
        ELSE IF PlainNumber(normalized_val) /\ pending # NoneV
        THEN [val |-> StrV(pending.s \o <<"~">> \o normalized_val), pending |-> NoneV,
              meaningful |-> TRUE, used |-> TRUE]
        ELSE IF pend # <<>> /\ pending # NoneV
        THEN [val |-> StrV(pending.s \o <<"~">> \o pend[1]), pending |-> NoneV,
              meaningful |-> TRUE, used |-> TRUE]
        \* from here on the pending start is cleared (lines 185-186)
        ELSE IF PlainNumber(normalized_val) /\ FloatOk(stripped)
        THEN [val |-> ParseFloat(stripped), pending |-> NoneV,
              meaningful |-> TRUE, used |-> FALSE]
        ELSE IF normalized_val \in UnitWords
        THEN [val |-> NoneV, pending |-> NoneV, meaningful |-> TRUE, used |-> FALSE]
        ELSE [val |-> StrV(cell_value_raw), pending |-> NoneV,
              meaningful |-> TRUE, used |-> FALSE]

\* lines 146-201 for one cell: the value stored under the header, the
\* header's pending range start afterward, and whether the cell set
\* row_has_meaningful_data.  used: the cell's value was built from pending.
ClassifyCell(cell_value_raw, pending) ==
    ClassifyNormalized(cell_value_raw, pending, NormalizeCell(cell_value_raw))

\* the row's cells, each str(c).strip() (lines 117, 124)
StripCells(row) == [c \in 1..Len(row) |-> Strip(row[c])]

\* the last column that carries header h (a later dict assignment wins)
ColOf(headers, n, h) ==
    CHOOSE c \in 2..n : headers[c] = h /\ \A d \in (c + 1)..n : headers[d] # h

\* lines 143-201: the classification of the cells of columns 2..n, by column
\* (index 1 is the label and holds no classification)
RECURSIVE ClassifyCells(_, _, _, _)
ClassifyCells(headers, pend, cells, n) ==
    IF n <= 1 THEN <<NoneV>>
    ELSE Append(ClassifyCells(headers, pend, cells, n - 1),
                ClassifyCell(cells[n], pend[headers[n]]))

\* line 131: queued_labels.pop(0), the label popped and the queue left
PopLabelLast(q) == [label |-> q[Len(q)], rest |-> SubSeq(q, 1, Len(q) - 1)]
PopLabel(q) == [label |-> Head(q), rest |-> Tail(q)]

\* lines 212-217: the headers of last_record that a continuation row fills
MergeFillsOverwrite(last_record, current_row_parsed_data) ==
    {h \in DOMAIN current_row_parsed_data \ {PeriodKey} :
        current_row_parsed_data[h] # NoneV}
MergeFills(last_record, current_row_parsed_data) ==
    {h \in DOMAIN current_row_parsed_data \ {PeriodKey} :
        /\ (IF h \in DOMAIN last_record THEN last_record[h] ELSE NoneV) = NoneV
        /\ current_row_parsed_data[h] # NoneV}

\* lines 128-138: the period the row is attributed to, and the queue after
AttributePeriod(q, row_label_text, is_period_label, has_numeric_data) ==
    [target_period |->
        IF has_numeric_data
        THEN IF q # <<>> THEN StrV(PopLabel(q).label)
             ELSE IF is_period_label THEN StrV(row_label_text) ELSE NoneV
        ELSE NoneV,
     queued_labels |->
        IF has_numeric_data
        THEN IF q # <<>>
             THEN IF is_period_label THEN Append(PopLabel(q).rest, row_label_text)
                  ELSE PopLabel(q).rest
             ELSE q
        ELSE IF is_period_label THEN Append(q, row_label_text) ELSE q]

\* lines 210-217: the last record with the headers of fills taken from the row
MergeInto(recs, current_row_parsed_data, fills) ==
    [recs EXCEPT ![Len(recs)] =
        [k \in DOMAIN recs[Len(recs)] \cup fills |->
            IF k \in fills THEN current_row_parsed_data[k] ELSE recs[Len(recs)][k]]]

\* lines 203-217: a record is appended for the row, or the row is merged
\* into the last record, or neither
EmitOrMerge(recs, target_period, current_row_parsed_data, row_has_meaningful_data) ==
    LET H == DOMAIN current_row_parsed_data
        truthy == target_period # NoneV /\ target_period.s # <<>>
        appended == truthy /\ \E h \in H \ {PeriodKey} : current_row_parsed_data[h] # NoneV
        merging == ~truthy /\ row_has_meaningful_data /\ recs # <<>>
    IN  [records |->
            IF appended
            THEN Append(recs, [k \in {PeriodKey} \cup H |->
                                  IF k \in H THEN current_row_parsed_data[k] ELSE target_period])
            ELSE IF merging
            THEN MergeInto(recs, current_row_parsed_data,
                           MergeFills(recs[Len(recs)], current_row_parsed_data))
            ELSE recs,
         appended |-> appended,
         fills |-> IF merging THEN MergeFills(recs[Len(recs)], current_row_parsed_data)
                   ELSE {}]

\* the outcome of a row, put together
RowOutcome(period, pending, cls, emitted) ==
    [queued_labels |-> period.queued_labels, pending |-> pending,
     records |-> emitted.records, target_period |-> period.target_period,
     cls |-> cls, appended |-> emitted.appended, fills |-> emitted.fills]

\* lines 140-217, cls being the classification of the row's cells by header
RowClassified(pend, recs, period, cls) ==
    RowOutcome(period,
               [h \in DOMAIN pend |-> IF h \in DOMAIN cls THEN cls[h].pending ELSE pend[h]],
               cls,
               EmitOrMerge(recs, period.target_period,
                           [h \in DOMAIN cls |-> cls[h].val],
                           \E h \in DOMAIN cls : cls[h].meaningful))

\* the classifications by_col (by column) under their headers, columns 2..n
ByHeader(headers, n, by_col) ==
    [h \in {headers[c] : c \in 2..n} |-> by_col[ColOf(headers, n, h)]]

\* lines 119-217, current_data_cells being the stripped cells of the row and
\* n the number of columns that have both a cell and a header
RowCells(headers, q, pend, recs, current_data_cells, n) ==
    RowClassified(pend, recs,
                  AttributePeriod(q, current_data_cells[1],
                                  IsPeriodLabel(current_data_cells[1]),
                                  HasNumericData(current_data_cells)),
                  ByHeader(headers, n, ClassifyCells(headers, pend, current_data_cells, n)))

\* lines 116-217: one data row.  headers is final_column_headers, q the
\* queue, pend the pending range starts, recs the records; the result holds
\* their values after the row, and what the row did (target_period, the
\* cells' classification, whether a record was appended or merged into).
RowStep(headers, q, pend, recs, row) ==
    RowCells(headers, q, pend, recs, StripCells(row),
             IF Len(row) < Len(headers) THEN Len(row) ELSE Len(headers))

----------------------------------------------------------------------------
(* parse_financial_table, Step 2: the column headers *)

\* str(n) for a natural number
RECURSIVE DecStr(_)
DecStr(n) == IF n < 10 THEN <<<<"0", "1", "2", "3", "4", "5", "6", "7", "8", "9">>[n + 1]>>
             ELSE DecStr(n \div 10) \o DecStr(n % 10)

Hyakumanen == <<"hyaku", "man", "en">>
Ensen == <<"en", "sen">>
Zougenritsu == <<"zou", "gen", "ritsu">>

\* lines 62-68: the unit suffix found in the header text
InitialUnitSuffix(text) ==
    IF Contains(text, Hyakumanen) THEN <<"_">> \o Hyakumanen
    ELSE IF Contains(text, Ensen) THEN <<"_">> \o Ensen
    ELSE <<>>

StripUnitPhraseNone(text) == text
\* lines 63-68: the header text with the unit phrase removed
StripUnitPhrase(text) ==
    IF Contains(text, Hyakumanen)
    THEN Replace(Replace(Replace(text, <<"(">> \o Hyakumanen \o <<")">>, <<>>),
                         <<"fwlp">> \o Hyakumanen \o <<"fwrp">>, <<>>), Hyakumanen, <<>>)
    ELSE IF Contains(text, Ensen)
    THEN Replace(Replace(Replace(text, <<"(">> \o Ensen \o <<")">>, <<>>),
                         <<"fwlp">> \o Ensen \o <<"fwrp">>, <<>>), Ensen, <<>>)
    ELSE text

\* re.fullmatch of [\(fwlp]*[fwpct%][\)fwrp]* (line 72)
PurePercent(s) ==
    LET a == RunEnd(s, 1, {"(", "fwlp"})
    IN  /\ a <= Len(s)
        /\ s[a] \in {"fwpct", "%"}
        /\ RunEnd(s, a + 1, {")", "fwrp"}) = Len(s) + 1

\* lines 71-74
IsSuffixOnly(text) ==
    \/ PurePercent(Strip(text))
    \/ \E k \in {Zougenritsu, <<"mae", "nen", "hi">>, <<"tai", "mae", "nen">>,
                 <<"dou", "zou", "gen">>, <<"tai", "mae", "ki">>} : Contains(text, k)

StripSuffixNone(name) == name
\* line 85: re.sub of _(hyaku-man-en|en-sen|zou-gen-ritsu)$ by the empty string
StripSuffix(name) ==
    IF \E u \in {Hyakumanen, Ensen, Zougenritsu} :
           OccursAt(name, <<"_">> \o u, Len(name) - Len(u))
    THEN LET u == CHOOSE u \in {Hyakumanen, Ensen, Zougenritsu} :
                      OccursAt(name, <<"_">> \o u, Len(name) - Len(u))
         IN  SubSeq(name, 1, Len(name) - Len(u) - 1)
    ELSE name

ResolveCollisionOnce(headers, original_name) ==
    IF \E i \in 1..Len(headers) : headers[i] = original_name
    THEN original_name \o <<"_", "1">> ELSE original_name
\* lines 104-108: the first of name, name_1, name_2, ... not yet in headers
ResolveCollision(headers, original_name) ==
    LET taken(x) == \E i \in 1..Len(headers) : headers[i] = x
        cand(k) == original_name \o <<"_">> \o DecStr(k)
    IN  IF ~taken(original_name) THEN original_name
        ELSE cand(CHOOSE k \in 1..(Len(headers) + 1) :
                      ~taken(cand(k)) /\ \A j \in 1..(k - 1) : taken(cand(j)))

\* lines 59-103: the name of data column c_idx (1, 2, ...) before collisions
\* are resolved, from its joined header text and the names assigned so far
ComposeName(headers, c_idx, header_joined) ==
    LET unit0 == InitialUnitSuffix(header_joined)
        full_header_text == StripUnitPhrase(header_joined)
        is_suffix_only == IsSuffixOnly(full_header_text)
        clean0 == Replace(Replace(Replace(full_header_text, <<" ">>, <<>>),
                                  <<"fwsp">>, <<>>), <<"NL">>, <<>>)
        inherit == clean0 = <<>> \/ is_suffix_only
        clean_header == IF inherit
                        THEN IF c_idx > 1 THEN StripSuffix(headers[Len(headers)])
                             ELSE <<"c", "o", "l", "_">> \o DecStr(c_idx)
                        ELSE clean0
        unit1 == IF inherit /\ c_idx > 1 /\ ~Contains(unit0, Zougenritsu) /\ unit0 = <<>>
                 THEN <<"_">> \o Zougenritsu ELSE unit0
        unit_suffix == IF /\ \/ Contains(full_header_text, Zougenritsu)
                             \/ Contains(full_header_text, <<"fwpct">>)
                             \/ Contains(full_header_text, <<"%">>)
                          /\ ~Contains(unit1, Zougenritsu)
                       THEN <<"_">> \o Zougenritsu ELSE unit1
    IN  clean_header \o unit_suffix

\* lines 52-109 for one column: final_column_headers after the append
AppendColumn(headers, header_joined) ==
    Append(headers, ResolveCollision(headers, ComposeName(headers, Len(headers), header_joined)))

----------------------------------------------------------------------------
(* parse_financial_table, Step 1 and the whole function *)

\* the regex class \d: ASCII digits and the full-width digits "fw0".."fw9"
UDigits == Digits \cup {"fw0", "fw1", "fw2", "fw3", "fw4", "fw5", "fw6", "fw7", "fw8", "fw9"}

\* re.search of (?:19|20)\d{2}[^0-9]*[nen\./] (line 26)
YearPattern(s) ==
    \E p \in 1..Len(s) : \E q \in (p + 4)..Len(s) :
        /\ SubSeq(s, p, p + 1) \in {<<"1", "9">>, <<"2", "0">>}
        /\ s[p + 2] \in UDigits /\ s[p + 3] \in UDigits
        /\ \A k \in (p + 4)..(q - 1) : s[k] \notin Digits
        /\ s[q] \in {"nen", ".", "/"}

\* re.fullmatch of [-]?\d+(\.\d+)?%? (line 38)
SimpleNumber(s) ==
    LET a == IF s # <<>> /\ s[1] = "-" THEN 2 ELSE 1
        b == IF a <= Len(s) + 1 THEN RunEnd(s, a, UDigits) ELSE a
        c == IF b <= Len(s) /\ s[b] = "." /\ b + 1 <= Len(s) /\ s[b + 1] \in UDigits
             THEN RunEnd(s, b + 1, UDigits) ELSE b
        d == IF c <= Len(s) /\ s[c] = "%" THEN c + 1 ELSE c
    IN  b > a /\ d = Len(s) + 1

\* lines 37-38: the cell counts as numeric
CountsAsNumeric(val) ==
    LET s_val == Replace(Replace(Replace(Replace(Strip(val), <<",">>, <<>>),
                     <<"tri">>, <<"-">>), <<"btri">>, <<"-">>), <<"fwminus">>, <<"-">>)
    IN  SimpleNumber(s_val) \/ s_val \in {<<"-">>, <<"minus">>, <<"hbar">>}

\* lines 24-42: row i (from 1) is where the data starts
IsDataStart(df, i) ==
    LET row_label == Strip(df[i][1])
        data_cols_count == Len(df[i]) - 1
        numeric_count == Cardinality({c \in 2..Len(df[i]) : CountsAsNumeric(df[i][c])})
    IN  \/ YearPattern(row_label)
        \/ Contains(row_label, <<"tsuu", "ki">>)
        \/ Contains(row_label, <<"shi", "han", "ki">>)
        \/ Contains(row_label, <<"nen", "do">>)
        \/ (Len(df[i]) > 1 /\ 2 * numeric_count > data_cols_count)

\* lines 21-47: first_data_row_idx, counted from 0 as in the source; -1 when
\* no row starts the data
FirstDataRowIdx(df) ==
    IF \E i \in 1..Len(df) : IsDataStart(df, i)
    THEN LET i == CHOOSE i \in 1..Len(df) :
                      IsDataStart(df, i) /\ \A j \in 1..(i - 1) : ~IsDataStart(df, j)
         IN  IF i - 1 = 0 THEN 1 ELSE i - 1
    ELSE -1

\* line 56: a header cell that is kept
KeptHeaderPart(val) ==
    /\ val # <<>>
    /\ ~(Len(val) = 3 /\ val[1] \in {"n", "N"} /\ val[2] \in {"a", "A"} /\ val[3] \in {"n", "N"})
    /\ val # <<"N", "o", "n", "e">>

\* lines 53-59: the header cells of column c (from 1) above row first, joined
RECURSIVE JoinHeaderParts(_, _, _)
JoinHeaderParts(df, first, c) ==
    IF first = 0 THEN <<>>
    ELSE LET val == Strip(df[first][c])
         IN  JoinHeaderParts(df, first - 1, c) \o (IF KeptHeaderPart(val) THEN val ELSE <<>>)

\* lines 50-109: final_column_headers of a grid of ncols columns
RECURSIVE BuildHeaders(_, _, _)
BuildHeaders(df, first, ncols) ==
    IF ncols <= 1 THEN <<PeriodKey>>
    ELSE AppendColumn(BuildHeaders(df, first, ncols - 1), JoinHeaderParts(df, first, ncols))

\* line 113
InitialPending(headers) == [h \in {headers[c] : c \in 2..Len(headers)} |-> NoneV]

\* lines 115-217: the rows from index i (from 1) on; FoldNext goes on after
\* row i, whose outcome is r
RECURSIVE FoldRows(_, _, _, _, _, _)
RECURSIVE FoldNext(_, _, _, _)
FoldNext(df, i, headers, r) ==
    FoldRows(df, i + 1, headers, r.queued_labels, r.pending, r.records)
FoldRows(df, i, headers, q, pend, recs) ==
    IF i > Len(df) THEN recs
    ELSE FoldNext(df, i, headers, RowStep(headers, q, pend, recs, df[i]))

\* lines 112-219, the headers built
ParseRows(df, first_data_row_idx, headers) ==
    FoldRows(df, first_data_row_idx + 1, headers, <<>>, InitialPending(headers), <<>>)

\* lines 44-219, the data start found
ParseFrom(df, first_data_row_idx) ==
    IF first_data_row_idx = -1 THEN <<>>
    ELSE ParseRows(df, first_data_row_idx,
                   BuildHeaders(df, first_data_row_idx, Len(df[1])))

\* parse_financial_table (lines 11-219); df is a sequence of rows of equal
\* length, each a sequence of cells
ParseFinancialTable(df) ==
    IF df = <<>> \/ df[1] = <<>> THEN <<>>
    ELSE ParseFrom(df, FirstDataRowIdx(df))

----------------------------------------------------------------------------
(* pdf_parser.py: expand_multiline_table *)

NoneWord == <<"N", "o", "n", "e">>

\* str.split('\n'): the pieces between line feeds (one more than the feeds)
RECURSIVE SplitLines(_)
SplitLines(s) ==
    LET e == RunEnd(s, 1, {c \in {s[k] : k \in 1..Len(s)} : c # "NL"})
    IN  IF e > Len(s) THEN <<s>>
        ELSE <<SubSeq(s, 1, e - 1)>> \o SplitLines(SubSeq(s, e + 1, Len(s)))

\* lines 164-165: the pieces stripped, the empty ones dropped
RECURSIVE StripNonEmpty(_)
StripNonEmpty(cell_parts) ==
    IF cell_parts = <<>> THEN <<>>
    ELSE LET p == Strip(Head(cell_parts))
         IN  (IF p # <<>> THEN <<p>> ELSE <<>>) \o StripNonEmpty(Tail(cell_parts))

\* line 160 for one cell: str(x).replace('None', '').split('\n')
SplitCell(x) == SplitLines(Replace(x, NoneWord, <<>>))

\* lines 183-184, 190-191: the fragment reads as a number
IsNumFragment(val) ==
    SimpleNumber(Replace(Replace(Replace(Replace(val, <<",">>, <<>>),
        <<"tri">>, <<"-">>), <<"btri">>, <<"-">>), <<"fwminus">>, <<"-">>))

\* line 185: re.match of ^([~ fwtilde \- fwminus])\s*(.*)$: <<group 2>>, or
\* <<>> when there is no match
MatchRangeEnd(next_val) ==
    IF next_val # <<>> /\ next_val[1] \in {"~", "fwtilde", "-", "fwminus"}
    THEN <<SubSeq(next_val, RunEnd(next_val, 2, SpaceChars), Len(next_val))>>
    ELSE <<>>

\* lines 171-202: the fragments from index j on, adjacent fragments that form
\* a split range merged into one
RECURSIVE MergeFrom(_, _)
MergeFrom(parts, j) ==
    IF j > Len(parts) THEN <<>>
    ELSE LET curr_val == parts[j]
             m == IF j < Len(parts) THEN MatchRangeEnd(parts[j + 1]) ELSE <<>>
             is_merged == /\ j < Len(parts)
                          /\ IsNumFragment(curr_val)
                          /\ m # <<>>
                          /\ IsNumFragment(m[1])
         IN  IF is_merged THEN <<curr_val \o <<"~">> \o m[1]>> \o MergeFrom(parts, j + 2)
             ELSE <<curr_val>> \o MergeFrom(parts, j + 1)

\* lines 163-204 for one cell: its merged fragments
MergedParts(cell) ==
    LET parts == StripNonEmpty(SplitCell(cell))
    IN  IF Len(parts) < 2 THEN parts ELSE MergeFrom(parts, 1)

\* lines 206-219: the output rows of one source row
ExpandRow(row) ==
    LET merged_split_cells == [c \in 1..Len(row) |-> MergedParts(row[c])]
        depths == {Len(merged_split_cells[c]) : c \in 1..Len(row)}
        max_depth == IF row = <<>> THEN 0 ELSE CHOOSE d \in depths : \A e \in depths : e <= d
    IN  [depth \in 1..max_depth |->
            [c \in 1..Len(row) |->
                IF depth <= Len(merged_split_cells[c]) THEN merged_split_cells[c][depth]
                ELSE <<>>]]

\* lines 157-224 on a whole grid: the rows of the DataFrame returned (no
\* cell of expanded_rows is NaN, so the dropna and fillna of line 222 change
\* nothing)
RECURSIVE ExpandMultilineTable(_)
ExpandMultilineTable(df) ==
    IF df = <<>> THEN <<>>
    ELSE ExpandRow(Head(df)) \o ExpandMultilineTable(Tail(df))

----------------------------------------------------------------------------
(* pdf_parser.py: _is_likely_data_or_footnote and get_table_title *)

\* the characters of the regex class of line 22 (CJK ideographs, hiragana,
\* katakana) among the characters written in this module
JapaneseChars == {
    "u304F", "u306A", "u306E", "u306F", "u3073", "u308A", "u30AD", "u30B7",
    "u30C3", "u30D5", "u30E3", "u30E5", "u30ED", "man", "ue", "u4E88",
    "u4E8B", "u4F1A", "u4F4D", "u4FEE", "u500B", "en", "u51FA", "u5206",
    "u5225", "u5229", "mae", "u5305", "u533A", "chi", "han", "u5358",
    "u53CA", "u53E3", "dou", "u544A", "u55B6", "shi", "u57FA", "u5831",
    "zou", "uri", "tai", "nen", "do", "u5F53", "u60F3", "u614B", "u6210",
    "u62EC", "u640D", "u653F", "u65B9", "u66F8", "gatsu", "ki", "u682A",
    "u696D", "u6982", "u6B63", "hi", "u6C7A", "u6CC1", "u6CD5", "u6CE8",
    "gen", "u6E96", "u72B6", "ritsu", "hyaku", "u7684", "u76CA", "u76EE",
    "u793A", "u7A4D", "u7B2C", "u7B97", "u7D04", "u7D4C", "u7D50", "u7E3E",
    "u8868", "u8981", "u898B", "u8A08", "u8A18", "u8CA1", "u8F09", "tsuu",
    "u9023", "u914D", "u91CD", "sen", "u9664", "u96C6", "taka"}

\* the regex class of line 23: the listed characters and the range from "+"
\* to "~", which is the ASCII characters U+002B to U+007E (all but the grave
\* accent U+0060, which no string of this module holds)
NumericSymbolChars == {"%", "(", ")", "tri", "btri", "fwminus", "fwplus", "u2192", "fwtilde",
    "+", ",", "-", ".", "/", "0", "1", "2", "3", "4", "5", "6", "7", "8",
    "9", ":", ";", "<", "=", ">", "?", "@", "A", "B", "C", "D", "E", "F",
    "G", "H", "I", "J", "K", "L", "M", "N", "O", "P", "Q", "R", "S", "T",
    "U", "V", "W", "X", "Y", "Z", "[", "\\", "]", "^", "_", "a", "b",
    "c", "d", "e", "f", "g", "h", "i", "j", "k", "l", "m", "n", "o", "p",
    "q", "r", "s", "t", "u", "v", "w", "x", "y", "z", "{", "|", "}", "~"}

UpperChars == {"A", "B", "C", "D", "E", "F", "G", "H", "I", "J", "K", "L", "M",
               "N", "O", "P", "Q", "R", "S", "T", "U", "V", "W", "X", "Y", "Z"}
LowerChars == {"a", "b", "c", "d", "e", "f", "g", "h", "i", "j", "k", "l", "m",
               "n", "o", "p", "q", "r", "s", "t", "u", "v", "w", "x", "y", "z"}

\* str.isupper(): some cased character, and no lower-case one
IsUpper(s) ==
    /\ \E k \in 1..Len(s) : s[k] \in UpperChars
    /\ \A k \in 1..Len(s) : s[k] \notin LowerChars

\* len(re.findall(class, s)): the number of characters of s in the class
CountIn(s, class) == Cardinality({k \in 1..Len(s) : s[k] \in class})

\* str.count(w): the occurrences of w in s from index p on, not overlapping
RECURSIVE CountFrom(_, _, _)
CountFrom(s, w, p) ==
    IF p + Len(w) - 1 > Len(s) THEN 0
    ELSE IF OccursAt(s, w, p) THEN 1 + CountFrom(s, w, p + Len(w))
    ELSE CountFrom(s, w, p + 1)

\* the alternatives of the pattern of line 18
UnitTokens == {<<"hyaku", "man", "en">>, <<"chi", "en">>, <<"en", "sen">>, <<"en">>, <<"sen">>,
               <<"u682A">>, <<"u53E3">>, <<"fwpct">>, <<"%">>, <<"tri">>, <<"btri">>,
               <<"fwminus">>, <<"fwplus">>, <<"-">>, <<"+">>}

\* lines 18-19: s from index p on is one or more of the unit tokens and
\* nothing else
RECURSIVE UnitsOnlyFrom(_, _)
UnitsOnlyFrom(s, p) ==
    \E w \in UnitTokens :
        /\ OccursAt(s, w, p)
        /\ \/ p + Len(w) = Len(s) + 1
           \/ UnitsOnlyFrom(s, p + Len(w))

\* the list of line 30, in its order (a word is counted for every entry
\* it holds)
UnitKeywords == <<<<"hyaku", "man", "en">>, <<"chi", "en">>, <<"en", "sen">>, <<"u682A">>,
                  <<"u53E3">>, <<"fwpct">>, <<"%">>, <<"en">>, <<"sen">>>>

RECURSIVE UnitKeywordCount(_, _)
UnitKeywordCount(s, i) ==
    IF i > Len(UnitKeywords) THEN 0
    ELSE CountFrom(s, UnitKeywords[i], 1) + UnitKeywordCount(s, i + 1)

\* line 38: the number of matches re.findall finds from index p on of
\* [- fwminus minus tri btri fwplus +]?[0-9,]+(?:\.[0-9]+)?%?
RECURSIVE NumberLikeBlocks(_, _)
NumberLikeBlocks(s, p) ==
    IF p > Len(s) THEN 0
    ELSE LET a == IF s[p] \in {"-", "fwminus", "minus", "tri", "btri", "fwplus", "+"}
                  THEN p + 1 ELSE p
             b == IF a <= Len(s) THEN RunEnd(s, a, Digits \cup {","}) ELSE a
             c == IF b + 1 <= Len(s) /\ s[b] = "." /\ s[b + 1] \in Digits
                  THEN RunEnd(s, b + 1, Digits) ELSE b
             d == IF c <= Len(s) /\ s[c] = "%" THEN c + 1 ELSE c
         IN  IF b > a THEN 1 + NumberLikeBlocks(s, d)
             ELSE NumberLikeBlocks(s, p + 1)

\* [0-9 fw0-fw9]+\s*[. uFF0E] at index a
EnumeratedAt(s, a) ==
    LET b == RunEnd(s, a, UDigits)
        c == RunEnd(s, b, SpaceChars)
    IN  b > a /\ c <= Len(s) /\ s[c] \in {".", "uFF0E"}

\* lines 40 and 48: re.match of ^[0-9 fw0-fw9]+\s*[. uFF0E]
EnumeratedPrefix(s) == EnumeratedAt(s, 1)

ExplanatoryKeywords == {
    <<"u8868", "u793A", "u306F">>,
    <<"tai", "mae", "ki", "zou", "gen", "ritsu">>, <<"u5358", "u4F4D">>,
    <<"u7B97", "u51FA">>, <<"u8A18", "u8F09">>, <<"u9664", "u304F">>}

\* _is_likely_data_or_footnote (lines 6-51).  str.lower() of line 15 changes
\* none of "(", U+6CE8, ")" and no character lowers to one of them.
IsLikelyDataOrFootnoteNever(text) == FALSE
IsLikelyDataOrFootnote(text) ==
    LET text_clean == Replace(Replace(text, <<" ">>, <<>>), <<"fwsp">>, <<>>)
        total_len == Len(text_clean)
        descriptive_japanese_count == CountIn(text_clean, JapaneseChars)
        numeric_symbol_count == CountIn(text_clean, NumericSymbolChars)
        unit_keyword_count == UnitKeywordCount(text_clean, 1)
    IN  IF text_clean = <<>> THEN TRUE
        ELSE IF OccursAt(text_clean, <<"(", "u6CE8", ")">>, 1) THEN TRUE
        ELSE IF UnitsOnlyFrom(text_clean, 1) THEN TRUE
        ELSE IF /\ total_len > 5
                /\ 10 * (numeric_symbol_count + unit_keyword_count * 3) > 7 * total_len
                /\ 10 * descriptive_japanese_count < 2 * total_len
             THEN TRUE
        ELSE IF /\ Contains(text_clean, <<"nen">>) \/ Contains(text_clean, <<"ki">>)
                /\ NumberLikeBlocks(text_clean, 1) >= 2
             THEN ~EnumeratedPrefix(text_clean)
        ELSE /\ \E k \in ExplanatoryKeywords : Contains(text_clean, k)
             /\ \A i \in 1..total_len : text_clean[i] \notin UDigits
             /\ 2 * descriptive_japanese_count > total_len
             /\ ~EnumeratedPrefix(text_clean)
             /\ ~IsUpper(text_clean)

\* a sequence of records with a field k, sorted by k, equal keys in their
\* given order (Python's sorted)
RECURSIVE InsertByK(_, _)
InsertByK(sorted, x) ==
    IF sorted = <<>> THEN <<x>>
    ELSE IF x.k < sorted[Len(sorted)].k
         THEN Append(InsertByK(SubSeq(sorted, 1, Len(sorted) - 1), x), sorted[Len(sorted)])
         ELSE Append(sorted, x)

RECURSIVE SortedByK(_)
SortedByK(s) ==
    IF s = <<>> THEN <<>>
    ELSE InsertByK(SortedByK(SubSeq(s, 1, Len(s) - 1)), s[Len(s)])

\* lines 62-74: the words grouped into lines; a line's key k is twice the
\* y centre of its first word (top + bottom), a word joins the first line
\* whose centre is less than line_group_tolerance (3) from its own
RECURSIVE LinesByY(_)
LinesByY(all_words) ==
    IF all_words = <<>> THEN <<>>
    ELSE LET lines == LinesByY(SubSeq(all_words, 1, Len(all_words) - 1))
             word == all_words[Len(all_words)]
             c2 == word.top + word.bottom
             near(i) == IF c2 >= lines[i].k THEN c2 - lines[i].k < 6
                        ELSE lines[i].k - c2 < 6
             found == {i \in 1..Len(lines) : near(i)}
         IN  IF found = {}
             THEN Append(lines, [k |-> c2, words |-> <<word>>])
             ELSE LET i == CHOOSE i \in found : \A j \in found : i <= j
                  IN  [lines EXCEPT ![i].words = Append(@, word)]

\* " ".join of the words' texts
RECURSIVE JoinWords(_)
JoinWords(line_words) ==
    IF line_words = <<>> THEN <<>>
    ELSE IF Len(line_words) = 1 THEN line_words[1].text
    ELSE line_words[1].text \o <<" ">> \o JoinWords(Tail(line_words))

MinOf(S) == CHOOSE x \in S : \A y \in S : x <= y
MaxOf(S) == CHOOSE x \in S : \A y \in S : y <= x

\* lines 78-101: candidate_titles_raw, the lines above the table that are
\* near it and over it, each with its distance, from the top of the page down
RECURSIVE CandidatesOf(_, _)
CandidatesOf(lines, table_bbox) ==
    IF lines = <<>> THEN <<>>
    ELSE LET line_words == SortedByK([i \in 1..Len(lines[1].words) |->
                               [k |-> lines[1].words[i].x0, w |-> lines[1].words[i]]])
             ws == [i \in 1..Len(line_words) |-> line_words[i].w]
             line_text == Strip(JoinWords(ws))
             line_x0 == MinOf({ws[i].x0 : i \in 1..Len(ws)})
             line_x1 == MaxOf({ws[i].x1 : i \in 1..Len(ws)})
             line_y1 == MaxOf({ws[i].bottom : i \in 1..Len(ws)})
             table_x0 == table_bbox[1]
             table_y0 == table_bbox[2]
             table_x1 == table_bbox[3]
             overlap_x0 == MaxOf({table_x0, line_x0})
             overlap_x1 == MinOf({table_x1, line_x1})
             overlap_width == MaxOf({0, overlap_x1 - overlap_x0})
             table_width == table_x1 - table_x0
             line_width == line_x1 - line_x0
             is_candidate ==
                 /\ line_text # <<>>
                 /\ line_y1 < table_y0 /\ table_y0 - line_y1 <= 50
                 /\ table_width > 0 /\ line_width > 0
                 /\ \/ 2 * overlap_width >= table_width
                    \/ /\ 5 * line_x0 >= 5 * table_x0 - table_width
                       /\ 5 * line_x1 <= 5 * table_x1 + table_width
         IN  (IF is_candidate
              THEN <<[text |-> line_text, distance |-> table_y0 - line_y1]>>
              ELSE <<>>) \o CandidatesOf(Tail(lines), table_bbox)

\* line 104
TitleKeywords == {
    <<"u7D4C", "u55B6", "u6210", "u7E3E">>,
    <<"u914D", "u5F53", "u306E", "u72B6", "u6CC1">>,
    <<"u8CA1", "u653F", "u72B6", "u614B">>,
    <<"u30AD", "u30E3", "u30C3", "u30B7", "u30E5", "u30FB", "u30D5", "u30ED", "u30FC">>,
    <<"u640D", "u76CA", "u8A08", "u7B97", "u66F8">>,
    <<"u640D", "u76CA", "u53CA", "u3073", "u5305", "u62EC", "u5229", "u76CA">>,
    <<"u4E88", "u60F3">>, <<"u4FEE", "u6B63">>, <<"u6982", "u8981">>,
    <<"u9023", "u7D50">>, <<"u500B", "u5225">>, <<"u8981", "u7D04">>,
    <<"u5831", "u544A">>, <<"u6C7A", "u7B97">>, <<"u533A", "u5206">>,
    <<"u96C6", "u8A08">>, <<"u4F1A", "u8A08", "u57FA", "u6E96">>,
    <<"u91CD", "u8981", "u306A", "u4F1A", "u8A08", "ue", "u306E", "u898B", "u7A4D", "u308A">>,
    <<"u4E8B", "u696D">>, <<"u76EE", "u7684">>}

\* the patterns of lines 111-114, searched at the start of the line
TitlePrefix(s) ==
    LET a == RunEnd(s, 1, SpaceChars)
        numerals == RunEnd(s, a + 1, UDigits \cup {"I", "uFF36", "X"})
        close == RunEnd(s, numerals, SpaceChars)
        romans == RunEnd(s, a, {"uFF29", "uFF36", "X"})
        dot == RunEnd(s, romans, SpaceChars)
    IN  \/ /\ a <= Len(s) /\ s[a] \in {"(", "fwlp"}
           /\ numerals > a + 1
           /\ close <= Len(s) /\ s[close] \in {")", "fwrp"}
        \/ EnumeratedAt(s, a)
        \/ /\ a + 1 <= Len(s) /\ s[a] = "u7B2C" /\ s[a + 1] \in UDigits
        \/ /\ romans > a
           /\ dot <= Len(s) /\ s[dot] \in {"uFF0E", "."}

\* lines 121-138: the score of a candidate line
TitleScore(line_text) ==
    (IF \E keyword \in TitleKeywords : Contains(line_text, keyword) THEN 10 ELSE 0)
    + (IF TitlePrefix(line_text) THEN 15 ELSE 0)
    + (IF 5 <= Len(line_text) /\ Len(line_text) <= 120 THEN 2
       ELSE IF Len(line_text) > 0 THEN -1 ELSE 0)
    + (IF Strip(line_text) = line_text THEN 1 ELSE 0)

\* lines 117-140: final_candidate_titles
RECURSIVE FinalCandidates(_)
FinalCandidates(candidate_titles_raw) ==
    IF candidate_titles_raw = <<>> THEN <<>>
    ELSE LET c == Head(candidate_titles_raw)
         IN  (IF IsLikelyDataOrFootnote(c.text) THEN <<>>
              ELSE <<[text |-> c.text, distance |-> c.distance, score |-> TitleScore(c.text)]>>)
             \o FinalCandidates(Tail(candidate_titles_raw))

\* lines 142-151: the first of the candidates in the order of line 143
\* (score descending, then distance ascending, then as listed), if it passes
BestTitle(final_candidate_titles) ==
    IF final_candidate_titles = <<>> THEN NoneV
    ELSE LET better(x, y) == \/ x.score > y.score
                             \/ x.score = y.score /\ x.distance < y.distance
             n == Len(final_candidate_titles)
             i == CHOOSE i \in 1..n :
                     /\ \A j \in 1..n : ~better(final_candidate_titles[j], final_candidate_titles[i])
                     /\ \A j \in 1..(i - 1) : better(final_candidate_titles[i], final_candidate_titles[j])
             best == final_candidate_titles[i]
         IN  IF best.score >= 10 \/ (best.score >= 2 /\ best.distance < 15)
             THEN StrV(best.text)
             ELSE IF n = 1 /\ 5 <= Len(best.text) /\ Len(best.text) <= 120
             THEN StrV(best.text)
             ELSE NoneV

\* get_table_title (lines 53-151) for the words of the page and the bounding
\* box <<x0, y0, x1, y1>> of the table (y grows down the page)
GetTableTitle(all_words, table_bbox) ==
    BestTitle(FinalCandidates(CandidatesOf(SortedByK(LinesByY(all_words)), table_bbox)))

----------------------------------------------------------------------------
(* financial_analyzer.py: analyze_pdf_url *)

IntV(n) == [t |-> "int", s |-> <<>>, neg |-> FALSE, mant |-> n, scale |-> 0]

TickerKey == <<"t", "i", "c", "k", "e", "r">>
PdfPathKey == <<"p", "d", "f", "_", "p", "a", "t", "h">>
TableTitleKey == <<"t", "a", "b", "l", "e", "_", "t", "i", "t", "l", "e">>
PageNumberKey == <<"p", "a", "g", "e", "_", "n", "u", "m", "b", "e", "r">>

\* line 291
IsUrl(target) ==
    \/ OccursAt(target, <<"h", "t", "t", "p", ":", "/", "/">>, 1)
    \/ OccursAt(target, <<"h", "t", "t", "p", "s", ":", "/", "/">>, 1)

\* lines 331-335: the record with its metadata
StampRecord(r, tick, target, item) ==
    [k \in DOMAIN r \cup {TickerKey, PdfPathKey, TableTitleKey, PageNumberKey} |->
        IF k = TickerKey THEN tick
        ELSE IF k = PdfPathKey THEN StrV(target)
        ELSE IF k = TableTitleKey THEN StrV(item.table_title)
        ELSE IF k = PageNumberKey THEN IntV(item.page_number)
        ELSE r[k]]

\* lines 319-337 for one item: the records it adds to parsed_records
ItemRecords(item, tick, target) ==
    LET expanded_df == ExpandMultilineTable(item.df)
        records == IF expanded_df = <<>> THEN <<>> ELSE ParseFinancialTable(expanded_df)
    IN  [i \in 1..Len(records) |-> StampRecord(records[i], tick, target, item)]

\* line 340: the rows of pd.DataFrame(records): every row has every column,
\* a missing value is NaN (None here)
ResultDf(records) ==
    LET columns == UNION {DOMAIN records[i] : i \in 1..Len(records)}
    IN  [i \in 1..Len(records) |->
            [c \in columns |-> IF c \in DOMAIN records[i] THEN records[i][c] ELSE NoneV]]

\* line 341
TargetCategories == <<<<"u7D4C", "u55B6", "u6210", "u7E3E">>,
                      <<"u696D", "u7E3E">>,
                      <<"u696D", "u7E3E", "u4E88", "u60F3">>>>

\* line 344: the rows whose table_title contains cat
SubsetAll(result_df, cat) == result_df
Subset(result_df, cat) ==
    LET Keep(row) == row[TableTitleKey].t = "str" /\ Contains(row[TableTitleKey].s, cat)
    IN  SelectSeq(result_df, Keep)

\* line 349: drop_duplicates, the first of equal rows kept
RECURSIVE DropDuplicates(_)
DropDuplicates(rows) ==
    IF rows = <<>> THEN <<>>
    ELSE LET init == DropDuplicates(SubSeq(rows, 1, Len(rows) - 1))
             last == rows[Len(rows)]
         IN  IF \E i \in 1..Len(init) : init[i] = last THEN init ELSE Append(init, last)

\* lines 342-349: filtered_df
RECURSIVE ConcatSubsets(_, _)
ConcatSubsets(result_df, i) ==
    IF i > Len(TargetCategories) THEN <<>>
    ELSE Subset(result_df, TargetCategories[i]) \o ConcatSubsets(result_df, i + 1)

FilteredDf(records) == DropDuplicates(ConcatSubsets(ResultDf(records), 1))

----------------------------------------------------------------------------
(* pdf_parser.py: extract_all_tables_as_df, the titles of a page's tables *)

\* line 251: previous_table_y1 is -float('inf') until a table of the page
\* was processed, and then the bottom edge of the last one
NegInf == [neginf |-> TRUE, y |-> 0]
Finite(y) == [neginf |-> FALSE, y |-> y]

\* line 270: the gap below which a title is inherited
TitleGapLimit == 70

\* line 270: table_y0 - previous_table_y1 < 70
GapBelowLimit(table_y0, prev_y1) ==
    ~prev_y1.neginf /\ table_y0 - prev_y1.y < TitleGapLimit

\* lines 264-271, 279: the title assigned to a table, found_direct_title being
\* what get_table_title returned for it
AssignedTitle(found_direct_title, prev_title, prev_y1, table_y0) ==
    IF found_direct_title # NoneV /\ found_direct_title.s # <<>>
    THEN found_direct_title.s
    ELSE IF prev_title # <<>> /\ GapBelowLimit(table_y0, prev_y1)
    THEN prev_title
    ELSE <<>>

\* lines 266-268: previous_table_title after the table
NextPreviousTitle(found_direct_title, prev_title) ==
    IF found_direct_title # NoneV /\ found_direct_title.s # <<>>
    THEN found_direct_title.s ELSE prev_title

----------------------------------------------------------------------------
(* The row interpreter as a state machine: one action per data row *)

vars == <<final_column_headers, header_texts, queued_labels,
          persistent_pending_range_starts, extracted_records, rows_seen,
          pending_owner, range_uses, parse_df, parse_pc, parse_result,
          expand_in, expanded_rows, expand_emitted,
          title_words, title_pc, title_result,
          a_pc, pdf_target, a_local_exists, ticker, verbose, temp_files,
          temp_file_path, extracted_tables_info, a_idx, parsed_records,
          a_return, a_result, a_io,
          norm_in, norm_once, norm_twice, norm_count,
          page_tables, page_idx, table_in_page_idx, previous_table_title,
          previous_table_y1, assigned_titles>>

\* the variables of a component that a specification does not run
RowsIdle ==
    /\ queued_labels = <<>>
    /\ persistent_pending_range_starts = <<>>
    /\ extracted_records = <<>>
    /\ rows_seen = <<>>
    /\ pending_owner = <<>>
    /\ range_uses = {}
HeadersIdle == final_column_headers = <<>> /\ header_texts = <<>>
ParseIdle == parse_df = <<>> /\ parse_pc = "idle" /\ parse_result = <<>>
ExpandIdle == expand_in = <<>> /\ expanded_rows = <<>> /\ expand_emitted = <<>>
TitleIdle == title_words = <<>> /\ title_pc = "idle" /\ title_result = NoneV
AnalyzeIdle ==
    /\ a_pc = "idle"
    /\ pdf_target = <<>>
    /\ a_local_exists = FALSE
    /\ ticker = NoneV
    /\ verbose = FALSE
    /\ temp_files = {}
    /\ temp_file_path = NoneV
    /\ extracted_tables_info = <<>>
    /\ a_idx = 0
    /\ parsed_records = <<>>
    /\ a_return = <<>>
    /\ a_result = <<>>
    /\ a_io = <<>>
NormalizeIdle ==
    norm_in = <<>> /\ norm_once = <<>> /\ norm_twice = <<>> /\ norm_count = 0
ExtractIdle ==
    /\ page_tables = <<>>
    /\ page_idx = 0
    /\ table_in_page_idx = 0
    /\ previous_table_title = <<>>
    /\ previous_table_y1 = NegInf
    /\ assigned_titles = <<>>
\* the machines added after the first six are idle
OthersIdle == NormalizeIdle /\ ExtractIdle

\* the header texts of the tables the row interpreter is run on:
\* uri-ue-taka(hyaku-man-en), and a blank header beside it
RowHeaderTexts == << <<"uri", "ue", "taka", "(", "hyaku", "man", "en", ")">>, <<>> >>

RowHeaders == AppendColumn(AppendColumn(<<PeriodKey>>, RowHeaderTexts[1]), RowHeaderTexts[2])

\* the state at line 115, before the first data row.  The grid's first row
\* is the header row [2023-nen-do, uri-ue-taka(hyaku-man-en), ""]: its label
\* makes it the data start at index 0 (lines 27-31), line 46 moves the start
\* to index 1, and every row from there on is interpreted as a data row.
InitRows ==
    /\ OthersIdle
    /\ header_texts = RowHeaderTexts
    /\ final_column_headers = RowHeaders
    /\ queued_labels = <<>>
    /\ persistent_pending_range_starts = InitialPending(RowHeaders)
    /\ extracted_records = <<>>
    /\ rows_seen = <<>>
    /\ pending_owner = [h \in DOMAIN InitialPending(RowHeaders) |-> 0]
    /\ range_uses = {}
    /\ ParseIdle
    /\ ExpandIdle
    /\ TitleIdle
    /\ AnalyzeIdle

\* one iteration of the loop of line 115 on the given row
ApplyRow(row, r) ==
    /\ queued_labels' = r.queued_labels
    /\ persistent_pending_range_starts' = r.pending
    /\ extracted_records' = r.records
    /\ rows_seen' = Append(rows_seen, row)
    /\ pending_owner' = [h \in DOMAIN pending_owner |->
                            IF h \in DOMAIN r.cls /\ r.cls[h].pending # NoneV
                            THEN Len(r.records)
                            ELSE IF h \in DOMAIN r.cls THEN 0 ELSE pending_owner[h]]
    /\ range_uses' = range_uses \cup
           {[header |-> h,
             start |-> persistent_pending_range_starts[h].s,
             value |-> r.cls[h].val.s,
             owner |-> pending_owner[h],
             placed |-> IF r.appended \/ h \in r.fills THEN Len(r.records) ELSE 0] :
                h \in {x \in DOMAIN r.cls : r.cls[x].used}}
    /\ UNCHANGED <<headerVars, parseVars, expandVars, titleVars, analyzeVars,
                 normVars, extractVars>>

ProcessRow(row) ==
    ApplyRow(row, RowStep(final_column_headers, queued_labels,
                          persistent_pending_range_starts, extracted_records, row))

MaxQueueRows == 3
MaxRangeRows == 3

\* row labels: none, 2023-nen-do, tsuu-ki (full year), and the ASCII FY2023
QueueLabels == {<<>>, <<"2", "0", "2", "3", "nen", "do">>, <<"tsuu", "ki">>,
                <<"F", "Y", "2", "0", "2", "3">>}
\* the data cells of a row: blank, two numbers, a bare dash
QueueCells == {<< <<>>, <<>> >>, << <<"9", "0", "0">>, <<"1", "0">> >>, << <<"-">>, <<>> >>}

\* a data row of a table with period labels on rows of their own
QueueRow ==
    /\ Len(rows_seen) < MaxQueueRows
    /\ \E l \in QueueLabels, d \in QueueCells : ProcessRow(<<l>> \o d)

RangeLabels == {<<>>, <<"2", "3", "nen">>, <<"2", "4", "nen">>}
\* the data cells of a row: blank, a range start, a range end, a number in
\* the first column; a range end in the second
RangeCells == {<< <<>>, <<>> >>, << <<"1", "0", "0", "~">>, <<>> >>,
               << <<"~", "2", "0", "0">>, <<>> >>, << <<"2", "0", "0">>, <<>> >>,
               << <<>>, <<"~", "2", "0", "0">> >>}

\* a data row of a table with range values split over rows
RangeRow ==
    /\ Len(rows_seen) < MaxRangeRows
    /\ \E l \in RangeLabels, d \in RangeCells : ProcessRow(<<l>> \o d)

SpecQueue == InitRows /\ [][QueueRow]_vars
SpecRange == InitRows /\ [][RangeRow]_vars

----------------------------------------------------------------------------
(* The header reconstructor as a state machine: one action per data column *)

MaxDataCols == 4

Revenue == <<"R", "e", "v", "e", "n", "u", "e">>

\* joined header texts: Revenue(hyaku-man-en), blank, (%), a full-width
\* percent in full-width parentheses, Revenue, Revenue_1, period, and the
\* unit phrase (hyaku-man-en) alone
HeaderPool == {Revenue \o <<"(">> \o Hyakumanen \o <<")">>, <<>>, <<"(", "%", ")">>,
               <<"fwlp", "fwpct", "fwrp">>, Revenue, Revenue \o <<"_", "1">>,
               PeriodKey, <<"(">> \o Hyakumanen \o <<")">>}

\* line 50
InitHeaders ==
    /\ OthersIdle
    /\ final_column_headers = <<PeriodKey>>
    /\ header_texts = <<>>
    /\ RowsIdle
    /\ ParseIdle
    /\ ExpandIdle
    /\ TitleIdle
    /\ AnalyzeIdle

\* one iteration of the loop of line 52
NameColumn ==
    /\ Len(header_texts) < MaxDataCols
    /\ \E t \in HeaderPool :
           /\ final_column_headers' = AppendColumn(final_column_headers, t)
           /\ header_texts' = Append(header_texts, t)
    /\ UNCHANGED <<rowVars, parseVars, expandVars, titleVars, analyzeVars,
                 normVars, extractVars>>

SpecHeader == InitHeaders /\ [][NameColumn]_vars

----------------------------------------------------------------------------
(* parse_financial_table on a whole grid *)

NetSales == <<"N", "e", "t", " ", "S", "a", "l", "e", "s">>
Uriagedaka == <<"uri", "ue", "taka">>
FY2024 == <<"F", "Y", "2", "0", "2", "4">>
Ki2024 == <<"2", "0", "2", "4", "nen", "3", "gatsu", "ki">>

\* a grid of two header rows and one data row
Grid(name, unit, pct, label, v1, v2) ==
    << << <<>>, name, <<>> >>, << <<>>, unit, pct >>, <<label, v1, v2>> >>

\* the metric name in ASCII or in Japanese, the unit as (yen M) or as
\* (hyaku-man-en), the percent column marked or blank, the label as FY2024
\* or as 2024-nen-3-gatsu-ki, the values present or absent
GridPool ==
    {Grid(name, unit, pct, label, v1, v2) :
        name \in {NetSales, Uriagedaka},
        unit \in {<<"(", "yen", "M", ")">>, <<"(">> \o Hyakumanen \o <<")">>},
        pct \in {<<"(", "%", ")">>, <<>>},
        label \in {FY2024, Ki2024},
        v1 \in {<<"1", ",", "2", "3", "4">>, <<>>},
        v2 \in {<<"5", ".", "6">>, <<"-">>}}

InitParse ==
    /\ OthersIdle
    /\ parse_df \in GridPool
    /\ parse_pc = "call"
    /\ parse_result = <<>>
    /\ HeadersIdle
    /\ RowsIdle
    /\ ExpandIdle
    /\ TitleIdle
    /\ AnalyzeIdle

\* the call of parse_financial_table on the grid
ParseTable ==
    /\ parse_pc = "call"
    /\ parse_result' = ParseFinancialTable(parse_df)
    /\ parse_pc' = "done"
    /\ UNCHANGED <<parse_df, headerVars, rowVars, expandVars, titleVars, analyzeVars,
                 normVars, extractVars>>

SpecParse == InitParse /\ [][ParseTable]_vars

----------------------------------------------------------------------------
(* Claims about the row interpreter *)

H1 == RowHeaders[2]
H2 == RowHeaders[3]
Nendo2023 == <<"2", "0", "2", "3", "nen", "do">>
FY2023 == <<"F", "Y", "2", "0", "2", "3">>
DataRow900 == << <<>>, <<"9", "0", "0">>, <<"1", "0">> >>

\* the row just processed by a step, and what it is
LastRow == rows_seen'[Len(rows_seen')]
HasDigitCell(cells) == \E c \in 2..Len(cells) : \E p \in 1..Len(cells[c]) : cells[c][p] \in Digits

\* a label-only row is queued and emits nothing; a numeric-bearing row met
\* with a non-empty queue pops the oldest label, pushes its own label (if it
\* is one) to the back, and a record it emits carries the popped label
C1_Step ==
    Len(rows_seen') = Len(rows_seen) + 1 =>
        LET cells == StripCells(LastRow)
            label == cells[1]
            isl == IsPeriodLabel(label)
            num == HasNumericData(cells)
            n == Len(extracted_records)
        IN  /\ (isl /\ ~num) =>
                /\ queued_labels' = Append(queued_labels, label)
                /\ extracted_records' = extracted_records
            /\ (num /\ queued_labels # <<>>) =>
                /\ queued_labels' = Tail(queued_labels) \o (IF isl THEN <<label>> ELSE <<>>)
                /\ Len(extracted_records') \in {n, n + 1}
                /\ HasDigitCell(cells) => Len(extracted_records') = n + 1
                /\ Len(extracted_records') = n + 1 =>
                       extracted_records'[n + 1][PeriodKey] = StrV(Head(queued_labels))

\* the rows [2023-nen-do, "", ""] then ["", "900", "10"] give one record, of
\* period 2023-nen-do
C1_Instance ==
    rows_seen = << <<Nendo2023, <<>>, <<>> >>, DataRow900 >> =>
        /\ Len(extracted_records) = 1
        /\ extracted_records[1][PeriodKey] = StrV(Nendo2023)
        /\ extracted_records[1][H1] = FloatV(FALSE, 900, 0)
        /\ extracted_records[1][H2] = FloatV(FALSE, 10, 0)

\* C1 (amended): period attribution follows a FIFO queue: a data-region row
\* that is a period label (it holds nen or ki) with no numeric data is queued
\* without emitting a record, and the next numeric-bearing row takes the
\* oldest queued label as its period, pushing its own label to the back; the
\* rows [2023-nen-do, "", ""], ["", "900", "10"] give a record of period
\* 2023-nen-do.
C1_PeriodQueueFIFO == [](C1_Instance) /\ [][C1_Step]_vars

\* C1 witness: two labels were queued, a data row took the older one and the
\* newer one is still queued
C1_Witness ==
    /\ Len(rows_seen) = 3
    /\ rows_seen[3] = DataRow900
    /\ queued_labels = << <<"tsuu", "ki">> >>
    /\ Len(extracted_records) = 1
    /\ extracted_records[1][PeriodKey] = StrV(Nendo2023)

\* C1 as stated: the rows ["FY2023", "", ""] then ["", "900", "10"] produce a
\* record for the data row whose period is "FY2023"
C1_Original_FY2023 ==
    rows_seen = << <<FY2023, <<>>, <<>> >>, DataRow900 >> =>
        /\ Len(extracted_records) = 1
        /\ extracted_records[1][PeriodKey] = StrV(FY2023)

RangeStart100 == <<"1", "0", "0", "~">>
RangeEnd200 == <<"~", "2", "0", "0">>
Range100To200 == <<"1", "0", "0", "~", "2", "0", "0">>

\* C2 as stated: when the first column receives "100~" in one data row (for
\* which a record is created) and "~200" in the next data row, after the
\* second row the first row's record holds "100~200" in that column, and the
\* column's pending-range slot is empty
C2_RangeMergeFillsFirstRow ==
    (/\ Len(rows_seen) = 2
     /\ rows_seen[1][2] = RangeStart100
     /\ rows_seen[2][2] = RangeEnd200
     /\ IsPeriodLabel(rows_seen[1][1])) =>
        /\ Len(extracted_records) >= 1
        /\ extracted_records[1][H1] = StrV(Range100To200)
        /\ persistent_pending_range_starts[H1] = NoneV

\* C3: once a field of an emitted record holds a non-null value it keeps it;
\* a step changes only null fields of the most recent record, never a
\* period, never an earlier record, and never removes a record
C3_NonNullNeverOverwritten ==
    [][\A i \in 1..Len(extracted_records) :
          /\ i <= Len(extracted_records')
          /\ DOMAIN extracted_records[i] \subseteq DOMAIN extracted_records'[i]
          /\ \A k \in DOMAIN extracted_records[i] :
                 extracted_records[i][k] # NoneV =>
                     extracted_records'[i][k] = extracted_records[i][k]
          /\ extracted_records'[i][PeriodKey] = extracted_records[i][PeriodKey]
          /\ i < Len(extracted_records) => extracted_records'[i] = extracted_records[i]]_vars

\* C3 witness: a continuation row offered "~200" for a field holding "100~"
\* (kept), and a later one filled the null field of the second column
C3_Witness ==
    /\ Len(rows_seen) = 3
    /\ rows_seen[2] = << <<>>, RangeEnd200, <<>> >>
    /\ rows_seen[3] = << <<>>, <<>>, RangeEnd200 >>
    /\ Len(extracted_records) = 1
    /\ extracted_records[1][H1] = StrV(RangeStart100)
    /\ extracted_records[1][H2] = StrV(RangeEnd200)

\* C4 as stated: each column holds at most one pending range start, and a
\* start stored while processing the row of one record is never used to build
\* a range value placed in a record created for a different period
C4_PendingNeverLeaks ==
    /\ \A h \in DOMAIN persistent_pending_range_starts :
           persistent_pending_range_starts[h].t \in {"None", "str"}
    /\ \A u \in range_uses :
           (u.owner # 0 /\ u.placed # 0) =>
               extracted_records[u.placed][PeriodKey] = extracted_records[u.owner][PeriodKey]

----------------------------------------------------------------------------
(* Claims about parse_financial_table as a whole and about its headers *)

\* C5 as stated: for header rows [["", "Net Sales", ""], ["", "(yen M)",
\* "(%)"]] and the data row ["FY2024", "1,234", "5.6"] the output is exactly
\* one record, of period "FY2024", with 1234.0 under Net Sales with the
\* currency-millions suffix and 5.6 under Net Sales with the percent-change
\* suffix
C5_Original_FY2024 ==
    (parse_pc = "done" /\ parse_df = Grid(NetSales, <<"(", "yen", "M", ")">>, <<"(", "%", ")">>,
                                          FY2024, <<"1", ",", "2", "3", "4">>, <<"5", ".", "6">>)) =>
        parse_result = << (PeriodKey :> StrV(FY2024))
                          @@ (NetSales \o <<"_">> \o Hyakumanen :> FloatV(FALSE, 1234, 0))
                          @@ (NetSales \o <<"_">> \o Zougenritsu :> FloatV(FALSE, 56, 1)) >>

NetSalesNoSpace == <<"N", "e", "t", "S", "a", "l", "e", "s">>

\* C5 (amended): for header rows [["", "Net Sales", ""], ["", "(hyaku-man-en)",
\* "(%)"]] and the data row ["2024-nen-3-gatsu-ki", "1,234", "5.6"] the output
\* is exactly one record: that period, 1234.0 under NetSales_hyaku-man-en and
\* 5.6 under NetSales_zou-gen-ritsu (the name loses its space)
C5_EndToEnd ==
    (parse_pc = "done" /\ parse_df = Grid(NetSales, <<"(">> \o Hyakumanen \o <<")">>, <<"(", "%", ")">>,
                                          Ki2024, <<"1", ",", "2", "3", "4">>, <<"5", ".", "6">>)) =>
        parse_result = << (PeriodKey :> StrV(Ki2024))
                          @@ (NetSalesNoSpace \o <<"_">> \o Hyakumanen :> FloatV(FALSE, 1234, 0))
                          @@ (NetSalesNoSpace \o <<"_">> \o Zougenritsu :> FloatV(FALSE, 56, 1)) >>

\* C5 witness: the call has returned one record for that grid
C5_Witness ==
    /\ parse_pc = "done"
    /\ parse_df = Grid(NetSales, <<"(">> \o Hyakumanen \o <<")">>, <<"(", "%", ")">>,
                       Ki2024, <<"1", ",", "2", "3", "4">>, <<"5", ".", "6">>)
    /\ Len(parse_result) = 1

C6_Distinct ==
    /\ final_column_headers[1] = PeriodKey
    /\ \A i, j \in 1..Len(final_column_headers) :
           i # j => final_column_headers[i] # final_column_headers[j]

\* the name appended is the composed name when that is free, and else the
\* composed name with the first free numeric suffix; the names assigned
\* before stay as they are
C6_Step ==
    Len(header_texts') = Len(header_texts) + 1 =>
        LET old == final_column_headers
            c == Len(old)
            orig == ComposeName(old, c, header_texts'[c])
            new == final_column_headers'[c + 1]
            taken(x) == \E i \in 1..c : old[i] = x
            suffixed(k) == orig \o <<"_">> \o DecStr(k)
        IN  /\ Len(final_column_headers') = c + 1
            /\ SubSeq(final_column_headers', 1, c) = old
            /\ IF ~taken(orig) THEN new = orig
               ELSE \E k \in 1..(c + 1) :
                        /\ new = suffixed(k)
                        /\ ~taken(suffixed(k))
                        /\ \A j \in 1..(k - 1) : taken(suffixed(j))

\* C6: the final column names are pairwise distinct, the reserved period
\* name of column 0 included, whatever the header cells are; a name that
\* collides with an assigned one gets the first free suffix _1, _2, ...
C6_UniqueNames == [](C6_Distinct) /\ [][C6_Step]_vars

\* C6 witness: a third Revenue column was named Revenue_2, after Revenue and
\* Revenue_1
C6_Witness ==
    /\ Len(final_column_headers) = 4
    /\ final_column_headers[4] = Revenue \o <<"_", "2">>
    /\ header_texts[3] = Revenue

RevenueMillions == Revenue \o <<"_">> \o Hyakumanen
RevenueChange == Revenue \o <<"_">> \o Zougenritsu
BlankOrPurePercent == {<<>>, <<"(", "%", ")">>, <<"fwlp", "fwpct", "fwrp">>}

\* C7 as stated: a data column whose header is blank or pure-percent and
\* whose predecessor's final name is Revenue_hyaku-man-en is named
\* Revenue_zou-gen-ritsu
C7_Original_InheritedName ==
    \A c \in 2..Len(header_texts) :
        (header_texts[c] \in BlankOrPurePercent /\ final_column_headers[c] = RevenueMillions) =>
            final_column_headers[c + 1] = RevenueChange

\* C7 (amended): such a column is named Revenue_zou-gen-ritsu when no
\* earlier column holds that name, and else Revenue_zou-gen-ritsu with the
\* first free numeric suffix _1, _2, ...
C7_InheritedName ==
    \A c \in 2..Len(header_texts) :
        (header_texts[c] \in BlankOrPurePercent /\ final_column_headers[c] = RevenueMillions) =>
            LET taken(x) == \E i \in 1..c : final_column_headers[i] = x
                suffixed(k) == RevenueChange \o <<"_">> \o DecStr(k)
            IN  IF ~taken(RevenueChange) THEN final_column_headers[c + 1] = RevenueChange
                ELSE \E k \in 1..c :
                         /\ final_column_headers[c + 1] = suffixed(k)
                         /\ ~taken(suffixed(k))
                         /\ \A j \in 1..(k - 1) : taken(suffixed(j))

\* C7 witness: a blank header after Revenue_hyaku-man-en, with
\* Revenue_zou-gen-ritsu already held by an earlier column
C7_Witness ==
    /\ Len(final_column_headers) = 5
    /\ header_texts[4] = <<>>
    /\ final_column_headers[4] = RevenueMillions
    /\ final_column_headers[5] = RevenueChange \o <<"_", "1">>

----------------------------------------------------------------------------
(* expand_multiline_table as a state machine: one action per source row *)

MaxExpandRows == 2

\* cells: empty; one line; two lines with blank lines and padding between;
\* a range split over two lines; a number above a negative number; three
\* lines of which the first two are a split range; the word None above a
\* number
ExpandCells == {<<>>,
                <<"a">>,
                <<" ", "a", " ", "NL", "NL", "fwsp", "b">>,
                <<"1", "0", "0", "NL", "~", " ", "2", "0", "0">>,
                <<"1", "NL", "~", "2", "NL", "3">>,
                <<"N", "o", "n", "e", "NL", "7">>}

InitExpand ==
    /\ OthersIdle
    /\ expand_in = <<>>
    /\ expanded_rows = <<>>
    /\ expand_emitted = <<>>
    /\ HeadersIdle
    /\ RowsIdle
    /\ ParseIdle
    /\ TitleIdle
    /\ AnalyzeIdle

\* one iteration of the loop of line 159
ExpandSourceRow ==
    /\ Len(expand_in) < MaxExpandRows
    /\ \E a \in ExpandCells, b \in ExpandCells :
           /\ expand_in' = Append(expand_in, <<a, b>>)
           /\ expanded_rows' = expanded_rows \o ExpandRow(<<a, b>>)
           /\ expand_emitted' = Append(expand_emitted, ExpandRow(<<a, b>>))
    /\ UNCHANGED <<headerVars, rowVars, parseVars, titleVars, analyzeVars,
                 normVars, extractVars>>

SpecExpand == InitExpand /\ [][ExpandSourceRow]_vars

----------------------------------------------------------------------------
(* Claims about expand_multiline_table *)

\* the trimmed non-empty line fragments of a cell, in order
CellFragments(cell) == StripNonEmpty(SplitLines(cell))

\* b continues a as the end of a split range: a is a number, b a range
\* separator and a number
IsSplitRange(a, b) ==
    /\ IsNumFragment(a)
    /\ b # <<>> /\ b[1] \in {"~", "fwtilde", "-", "fwminus"}
    /\ IsNumFragment(LStrip(Tail(b)))

\* out is the fragments fr, in order, with some adjacent fragments that form
\* a split range made one "A~B" fragment
RECURSIVE IsFragmentsOf(_, _)
IsFragmentsOf(out, fr) ==
    IF out = <<>> THEN fr = <<>>
    ELSE /\ fr # <<>>
         /\ \/ Head(out) = Head(fr) /\ IsFragmentsOf(Tail(out), Tail(fr))
            \/ /\ Len(fr) >= 2
               /\ IsSplitRange(fr[1], fr[2])
               /\ Head(out) = fr[1] \o <<"~">> \o LStrip(Tail(fr[2]))
               /\ IsFragmentsOf(Tail(out), Tail(Tail(fr)))

\* column c of the rows emitted for a source row, read down, up to the padding
ColumnDown(emitted, c) ==
    LET col == [d \in 1..Len(emitted) |-> emitted[d][c]]
        n == IF \E d \in 1..Len(col) : col[d] # <<>>
             THEN CHOOSE d \in 1..Len(col) : col[d] # <<>> /\ \A e \in (d + 1)..Len(col) : col[e] = <<>>
             ELSE 0
    IN  SubSeq(col, 1, n)

\* C10 as stated: for every source row and every column, the column read
\* down the rows emitted for the source row is the cell's trimmed non-empty
\* line fragments in order (a split range being one fragment), then only
\* padding; the number of rows emitted is the largest fragment count of the
\* row, and a row whose largest count is zero emits nothing
C10_ExpansionPreservesCells ==
    \A r \in 1..Len(expand_in) :
        LET emitted == expand_emitted[r]
            cols == 1..Len(expand_in[r])
        IN  /\ \A c \in cols :
                   /\ IsFragmentsOf(ColumnDown(emitted, c), CellFragments(expand_in[r][c]))
                   /\ \A d \in 1..Len(ColumnDown(emitted, c)) : ColumnDown(emitted, c)[d] # <<>>
            /\ \A d \in 1..Len(emitted) : Len(emitted[d]) = Len(expand_in[r])
            /\ (emitted # <<>>) => \E c \in cols : Len(ColumnDown(emitted, c)) = Len(emitted)

----------------------------------------------------------------------------
(* get_table_title as a state machine: the words of a page are placed, then
   the title of the table is looked for *)

MaxWords == 3

\* the bounding box <<x0, y0, x1, y1>> of the table
TableBBox == <<100, 200, 300, 400>>

Word(text, x0, x1, top, bottom) ==
    [text |-> text, x0 |-> x0, x1 |-> x1, top |-> top, bottom |-> bottom]

FootnoteLine == <<"(", "u6CE8", ")", " ", "u8A18", "u8F09", "u65B9", "u6CD5", "u306F", ".", ".", ".">>

\* the two words of the footnote line 10 above the table (their centres 1
\* apart); "1." and kei-ei-sei-seki 30 above; (hyaku-man-en) 12 above; a
\* number 5 above; Summary beside the table, 60 above it, and 20 above it
WordPool ==
    {Word(<<"(", "u6CE8", ")">>, 100, 140, 180, 190),
     Word(<<"u8A18", "u8F09", "u65B9", "u6CD5", "u306F", ".", ".", ".">>, 150, 300, 178, 190),
     Word(<<"1", ".">>, 100, 120, 160, 170),
     Word(<<"u7D4C", "u55B6", "u6210", "u7E3E">>, 130, 250, 160, 170),
     Word(<<"(">> \o Hyakumanen \o <<")">>, 260, 300, 178, 188),
     Word(<<"1", "0", "0", ",", "0", "0", "0">>, 150, 250, 185, 195),
     Word(<<"S", "u", "m", "m", "a", "r", "y">>, 400, 500, 180, 190),
     Word(<<"S", "u", "m", "m", "a", "r", "y">>, 150, 250, 130, 140),
     Word(<<"S", "u", "m", "m", "a", "r", "y">>, 150, 250, 170, 180)}

InitTitle ==
    /\ OthersIdle
    /\ title_words = <<>>
    /\ title_pc = "page"
    /\ title_result = NoneV
    /\ HeadersIdle
    /\ RowsIdle
    /\ ParseIdle
    /\ ExpandIdle
    /\ AnalyzeIdle

\* a word of the page, in the order page.extract_words lists them
PlaceWord ==
    /\ title_pc = "page"
    /\ Len(title_words) < MaxWords
    /\ \E w \in WordPool : title_words' = Append(title_words, w)
    /\ UNCHANGED <<title_pc, title_result>>
    /\ UNCHANGED <<headerVars, rowVars, parseVars, expandVars, analyzeVars,
                 normVars, extractVars>>

\* the call of get_table_title
FindTitle ==
    /\ title_pc = "page"
    /\ title_result' = GetTableTitle(title_words, TableBBox)
    /\ title_pc' = "done"
    /\ UNCHANGED title_words
    /\ UNCHANGED <<headerVars, rowVars, parseVars, expandVars, analyzeVars,
                 normVars, extractVars>>

SpecTitle == InitTitle /\ [][PlaceWord \/ FindTitle]_vars

----------------------------------------------------------------------------
(* Claims about get_table_title *)

TitleCandidates == CandidatesOf(SortedByK(LinesByY(title_words)), TableBBox)

\* C9: get_table_title never returns a line that the is-data-or-footnote
\* rule rejects; the line "(chuu) ki-sai-hou-hou-ha..." is never the title
\* returned, whatever the other lines above the table, also when it is the
\* nearest or the only one
C9_FootnoteNeverTitle ==
    title_pc = "done" =>
        /\ title_result # StrV(FootnoteLine)
        /\ \A i \in 1..Len(TitleCandidates) :
               IsLikelyDataOrFootnote(TitleCandidates[i].text)
                   => title_result # StrV(TitleCandidates[i].text)

\* the footnote line is the only line above the table, 10 above it, and no
\* title is returned
C9_Witness ==
    /\ title_pc = "done"
    /\ TitleCandidates = <<[text |-> FootnoteLine, distance |-> 10]>>
    /\ title_result = NoneV

----------------------------------------------------------------------------
(* analyze_pdf_url as a state machine: one action per step of the call *)

MaxTables == 2

UrlTarget == <<"h", "t", "t", "p", "s", ":", "/", "/", "x", "/", "a">>
LocalTarget == <<"a", ".", "p", "d", "f">>
TempName == <<"t", "m", "p", "1", ".", "p", "d", "f">>

KeieiSeiseki == <<"u7D4C", "u55B6", "u6210", "u7E3E">>
GyousekiYosou == <<"u696D", "u7E3E", "u4E88", "u60F3">>
NotesTitle == <<"N", "o", "t", "e", "s", " ", "o", "n", " ", "A", "c", "c", "o", "u", "n", "t", "i", "n", "g",
                " ", "P", "o", "l", "i", "c", "y">>

\* grids: one data row under two header rows; the same with its value cell
\* a range split over two lines; a grid of blank cells; header rows only
DfResults == Grid(Uriagedaka, <<"(">> \o Hyakumanen \o <<")">>, <<"(", "%", ")">>, Ki2024,
                  <<"1", ",", "2", "3", "4">>, <<"5", ".", "6">>)
DfForecast == Grid(Uriagedaka, <<"(">> \o Hyakumanen \o <<")">>, <<"(", "%", ")">>, Ki2024,
                   <<"1", ",", "2", "3", "4", "NL", "~", "2", ",", "0", "0", "0">>, <<"5", ".", "6">>)
DfBlank == << << <<>>, <<>> >> >>
DfHeaderOnly == << << <<>>, Uriagedaka >> >>

TableItem(df, page_number, table_title) ==
    [df |-> df, page_number |-> page_number, table_title |-> table_title]

TablePool ==
    {TableItem(DfResults, 1, KeieiSeiseki),
     TableItem(DfResults, 1, NotesTitle),
     TableItem(DfResults, 2, <<>>),
     TableItem(DfForecast, 2, GyousekiYosou),
     TableItem(DfBlank, 1, KeieiSeiseki),
     TableItem(DfHeaderOnly, 2, GyousekiYosou)}

\* what extract_all_tables_as_df can return: the tables of page 1, then
\* those of page 2
TableLists ==
    {tl \in UNION {[1..n -> TablePool] : n \in 0..MaxTables} :
        \A i \in 1..Len(tl) : \A j \in 1..Len(tl) :
            i < j => tl[i].page_number <= tl[j].page_number}

\* the state at the call: the arguments, and no temporary file
InitAnalyze ==
    /\ OthersIdle
    /\ a_pc = "call"
    /\ pdf_target \in {UrlTarget, LocalTarget}
    /\ a_local_exists \in BOOLEAN
    /\ IsUrl(pdf_target) => a_local_exists = FALSE
    /\ ticker \in {NoneV, StrV(<<"7", "2", "0", "3">>)}
    /\ verbose \in BOOLEAN
    /\ temp_files = {}
    /\ temp_file_path = NoneV
    /\ extracted_tables_info = <<>>
    /\ a_idx = 0
    /\ parsed_records = <<>>
    /\ a_return = <<>>
    /\ a_result = <<>>
    /\ a_io = <<>>
    /\ HeadersIdle
    /\ RowsIdle
    /\ ParseIdle
    /\ ExpandIdle
    /\ TitleIdle

aInputs == <<pdf_target, a_local_exists, verbose>>
aOthers == <<headerVars, rowVars, parseVars, expandVars, titleVars, normVars,
             extractVars>>

\* lines 291, 299-303: a URL is downloaded; a local path must exist
StartCall ==
    /\ a_pc = "call"
    /\ IF IsUrl(pdf_target)
       THEN a_pc' = "get" /\ UNCHANGED <<a_io, a_return>>
       ELSE /\ a_io' = Append(a_io, "exists")
            /\ IF a_local_exists THEN a_pc' = "ticker" /\ UNCHANGED a_return
               ELSE a_pc' = "finally" /\ a_return' = <<>>
    /\ UNCHANGED <<aInputs, ticker, temp_files, temp_file_path, extracted_tables_info,
                   a_idx, parsed_records, a_result, aOthers>>

\* lines 293-294: requests.get and raise_for_status succeed, or one raises
HttpGet ==
    /\ a_pc = "get"
    /\ a_io' = Append(a_io, "get")
    /\ a_pc' \in {"create", "except"}
    /\ UNCHANGED <<aInputs, ticker, temp_files, temp_file_path, extracted_tables_info,
                   a_idx, parsed_records, a_return, a_result, aOthers>>

\* line 295: the temporary file is created (delete=False), or creating raises
CreateTemp ==
    /\ a_pc = "create"
    /\ a_io' = Append(a_io, "create")
    /\ \/ a_pc' = "write" /\ temp_files' = temp_files \cup {TempName}
       \/ a_pc' = "except" /\ UNCHANGED temp_files
    /\ UNCHANGED <<aInputs, ticker, temp_file_path, extracted_tables_info,
                   a_idx, parsed_records, a_return, a_result, aOthers>>

\* lines 296-298: the content is written and the name kept, or the write
\* raises before line 297
WriteTemp ==
    /\ a_pc = "write"
    /\ a_io' = Append(a_io, "write")
    /\ \/ a_pc' = "ticker" /\ temp_file_path' = StrV(TempName)
       \/ a_pc' = "except" /\ UNCHANGED temp_file_path
    /\ UNCHANGED <<aInputs, ticker, temp_files, extracted_tables_info,
                   a_idx, parsed_records, a_return, a_result, aOthers>>

\* lines 305-309: get_text_robust returns a text (it raises nothing), a code
\* is found in it or not
DetectTicker ==
    /\ a_pc = "ticker"
    /\ IF ticker = NoneV
       THEN /\ a_io' = Append(a_io, "text")
            /\ ticker' \in {StrV(<<"1", "2", "3", "4">>),
                            StrV(<<"U", "N", "K", "N", "O", "W", "N">>)}
       ELSE UNCHANGED <<a_io, ticker>>
    /\ a_pc' = "extract"
    /\ UNCHANGED <<aInputs, temp_files, temp_file_path, extracted_tables_info,
                   a_idx, parsed_records, a_return, a_result, aOthers>>

\* lines 311-317: extract_all_tables_as_df returns the tables (none when it
\* failed inside); without tables the call returns an empty DataFrame
ExtractTables ==
    /\ a_pc = "extract"
    /\ a_io' = Append(a_io, "tables")
    /\ \E tl \in TableLists :
           /\ extracted_tables_info' = tl
           /\ IF tl = <<>>
              THEN a_pc' = "finally" /\ a_return' = <<>> /\ UNCHANGED a_idx
              ELSE a_pc' = "loop" /\ a_idx' = 1 /\ UNCHANGED a_return
    /\ parsed_records' = <<>>
    /\ UNCHANGED <<aInputs, ticker, temp_files, temp_file_path, a_result, aOthers>>

\* lines 318-337: one iteration of the loop
ProcessTable ==
    /\ a_pc = "loop"
    /\ a_idx <= Len(extracted_tables_info)
    /\ parsed_records' = parsed_records \o
                         ItemRecords(extracted_tables_info[a_idx], ticker, pdf_target)
    /\ a_idx' = a_idx + 1
    /\ UNCHANGED <<a_pc, aInputs, ticker, temp_files, temp_file_path,
                   extracted_tables_info, a_return, a_result, a_io, aOthers>>

\* lines 339-349, 382-385: the records are filtered by table title; with
\* verbose the rows kept are displayed before they are returned
FilterRecords ==
    /\ a_pc = "loop"
    /\ a_idx > Len(extracted_tables_info)
    /\ a_return' = IF parsed_records # <<>> THEN FilteredDf(parsed_records) ELSE <<>>
    /\ a_pc' = IF parsed_records # <<>> /\ verbose /\ FilteredDf(parsed_records) # <<>>
               THEN "display" ELSE "finally"
    /\ UNCHANGED <<aInputs, ticker, temp_files, temp_file_path, extracted_tables_info,
                   a_idx, parsed_records, a_result, a_io, aOthers>>

\* lines 353-378: the summary is displayed; display is a name only IPython
\* defines, so line 377 raises elsewhere
DisplaySummary ==
    /\ a_pc = "display"
    /\ a_pc' \in {"finally", "except"}
    /\ UNCHANGED <<aInputs, ticker, temp_files, temp_file_path, extracted_tables_info,
                   a_idx, parsed_records, a_return, a_result, a_io, aOthers>>

\* an exception raised inside lines 305-349 by a step that the actions above
\* take as succeeding
RaiseUnexpected ==
    /\ a_pc \in {"ticker", "extract", "loop"}
    /\ a_pc' = "except"
    /\ UNCHANGED <<aInputs, ticker, temp_files, temp_file_path, extracted_tables_info,
                   a_idx, parsed_records, a_return, a_result, a_io, aOthers>>

\* an except clause that reports the exception and goes on to return what
\* was computed
HandleExceptionKeeps ==
    /\ a_pc = "except"
    /\ a_pc' = "finally"
    /\ UNCHANGED <<aInputs, ticker, temp_files, temp_file_path, extracted_tables_info,
                   a_idx, parsed_records, a_return, a_result, a_io, aOthers>>

\* lines 387-389
HandleException ==
    /\ a_pc = "except"
    /\ a_return' = <<>>
    /\ a_pc' = "finally"
    /\ UNCHANGED <<aInputs, ticker, temp_files, temp_file_path, extracted_tables_info,
                   a_idx, parsed_records, a_result, a_io, aOthers>>

\* lines 390-392, then the caller has the value returned.  os.remove is
\* called on a file of this call that os.path.exists has just reported, and
\* no other process touches the file: it removes the file.
FinallyCleanup ==
    /\ a_pc = "finally"
    /\ IF temp_file_path # NoneV /\ temp_file_path.s # <<>> /\ temp_file_path.s \in temp_files
       THEN /\ temp_files' = temp_files \ {temp_file_path.s}
            /\ a_io' = Append(a_io, "remove")
       ELSE UNCHANGED <<temp_files, a_io>>
    /\ a_result' = a_return
    /\ a_pc' = "done"
    /\ UNCHANGED <<aInputs, ticker, temp_file_path, extracted_tables_info,
                   a_idx, parsed_records, a_return, aOthers>>

NextAnalyze ==
    \/ StartCall
    \/ HttpGet
    \/ CreateTemp
    \/ WriteTemp
    \/ DetectTicker
    \/ ExtractTables
    \/ ProcessTable
    \/ FilterRecords
    \/ DisplaySummary
    \/ RaiseUnexpected
    \/ HandleException
    \/ FinallyCleanup

SpecAnalyze == InitAnalyze /\ [][NextAnalyze]_vars

----------------------------------------------------------------------------
(* Claims about analyze_pdf_url *)

HasTargetCategory(title) ==
    \E i \in 1..Len(TargetCategories) : Contains(title, TargetCategories[i])

\* the records that parse out of the item's grid
ParsedOf(item) == ParseFinancialTable(ExpandMultilineTable(item.df))

\* row is a record of the item: the item's title and page, and the values of
\* one of the records parsed from its grid
RowComesFrom(row, item) ==
    /\ row[TableTitleKey] = StrV(item.table_title)
    /\ row[PageNumberKey] = IntV(item.page_number)
    /\ \E i \in 1..Len(ParsedOf(item)) :
           \A k \in DOMAIN ParsedOf(item)[i] : row[k] = ParsedOf(item)[i][k]

\* C8: every record analyze_pdf_url returns comes from a table whose caption
\* contains a target category; a table whose caption contains none of them
\* has no record in the result, though its rows parse, whatever the number
\* and order of the tables
C8_CaptionFilter ==
    a_pc = "done" =>
        /\ \A i \in 1..Len(a_result) :
               \E j \in 1..Len(extracted_tables_info) :
                   /\ HasTargetCategory(extracted_tables_info[j].table_title)
                   /\ RowComesFrom(a_result[i], extracted_tables_info[j])
        /\ \A j \in 1..Len(extracted_tables_info) :
               ~HasTargetCategory(extracted_tables_info[j].table_title)
                   => \A i \in 1..Len(a_result) :
                          a_result[i][TableTitleKey] # StrV(extracted_tables_info[j].table_title)

\* the call returned records, and one of its tables was captioned Notes on
\* Accounting Policy with rows that parse
C8_Witness ==
    /\ a_pc = "done"
    /\ a_result # <<>>
    /\ \E j \in 1..Len(extracted_tables_info) :
           /\ extracted_tables_info[j].table_title = NotesTitle
           /\ ParsedOf(extracted_tables_info[j]) # <<>>

\* C12: when the call has ended, on whatever path, no temporary file
\* created by the call remains on disk
C12_NoTempFileRemains == a_pc = "done" => temp_files = {}

\* how many times the boundary call kind was made
IoCount(kind) == Cardinality({i \in 1..Len(a_io) : a_io[i] = kind})

IoKinds == {"exists", "get", "create", "write", "text", "tables", "remove"}

\* the call ended without reaching the extraction of the tables: the
\* download failed, or the local file does not exist
RetrievalFailed == a_pc = "done" /\ IoCount("tables") = 0

\* the positions of the call; each but "done" has a step that leaves it
APositions == {"call", "get", "create", "write", "ticker", "extract", "loop",
               "display", "except", "finally", "done"}

\* C13: the call is always at a position from which it goes on to return; an
\* exception raised at any step is handled by returning an empty result,
\* which is what the caller receives; a retrieval failure, a document without tables and one without
\* data rows end with an empty result; no boundary call is made twice
C13_EmptyResultNoRetry ==
    /\ [](a_pc \in APositions)
    /\ [](\A kind \in IoKinds : IoCount(kind) <= 1)
    /\ [](a_pc = "done" /\ (RetrievalFailed \/ extracted_tables_info = <<>>
                             \/ parsed_records = <<>>)
             => a_result = <<>>)
    /\ [][/\ a_pc = "except" => a_pc' = "finally" /\ a_return' = <<>>
          /\ a_pc = "finally" => a_pc' = "done" /\ a_result' = a_return]_vars

\* the download succeeded and the tables held rows that pass the filter, an
\* exception was raised after that, and the caller received an empty result
C13_Witness ==
    /\ a_pc = "done"
    /\ IoCount("get") = 1
    /\ a_idx > Len(extracted_tables_info)
    /\ FilteredDf(parsed_records) # <<>>
    /\ a_result = <<>>

----------------------------------------------------------------------------
(* The cell normalization as a state machine: a cell text is given, it is
   normalized, and the result is normalized again *)

MaxCellLen == 3

\* the characters of the cell texts: spaces, plus signs, a negative glyph,
\* the full-width tilde and a digit
NormChars == {" ", "fwsp", "+", "fwplus", "tri", "fwtilde", "5"}

RECURSIVE CellTexts(_)
CellTexts(n) ==
    IF n = 0 THEN {<<>>}
    ELSE CellTexts(n - 1) \cup
         {Append(t, c) : t \in {u \in CellTexts(n - 1) : Len(u) = n - 1}, c \in NormChars}

InitNormalize ==
    /\ norm_in \in CellTexts(MaxCellLen)
    /\ norm_once = <<>>
    /\ norm_twice = <<>>
    /\ norm_count = 0
    /\ HeadersIdle
    /\ RowsIdle
    /\ ParseIdle
    /\ ExpandIdle
    /\ TitleIdle
    /\ AnalyzeIdle
    /\ ExtractIdle

normOthers == <<headerVars, rowVars, parseVars, expandVars, titleVars, analyzeVars,
                extractVars>>

\* the cell text is normalized
NormalizeOnce ==
    /\ norm_count = 0
    /\ norm_once' = Normalize(norm_in)
    /\ norm_count' = 1
    /\ UNCHANGED <<norm_in, norm_twice, normOthers>>

\* the normalized text is normalized again
NormalizeAgain ==
    /\ norm_count = 1
    /\ norm_twice' = Normalize(norm_once)
    /\ norm_count' = 2
    /\ UNCHANGED <<norm_in, norm_once, normOthers>>

SpecNormalize == InitNormalize /\ [][NormalizeOnce \/ NormalizeAgain]_vars

----------------------------------------------------------------------------
(* Claims about the cell normalization *)

\* C11: the cell normalization is idempotent: normalizing a normalized cell
\* text gives that text again
C11_NormalizeIdempotent == norm_count = 2 => norm_twice = norm_once

----------------------------------------------------------------------------
(* The row interpreter on rows of bare numbers, percentages and range starts *)

MaxBareRows == 2

\* the data cells of a row: blank, a range start, a bare number, a
\* percentage, a number with a decimal point
BareCells == {<< <<>>, <<>> >>, << <<"1", "0", "0", "~">>, <<>> >>,
              << <<"2", "0", "0">>, <<>> >>, << <<"5", ".", "6", "%">>, <<>> >>,
              << <<"5", ".", "6">>, <<>> >>}

\* a data row of a table of numbers and percentages
BareRow ==
    /\ Len(rows_seen) < MaxBareRows
    /\ \E l \in RangeLabels, d \in BareCells : ProcessRow(<<l>> \o d)

SpecBare == InitRows /\ [][BareRow]_vars

----------------------------------------------------------------------------
(* Claims about the classification of a cell *)

\* the number of a bare number: the text without a trailing percent glyph
NumberOf(s) ==
    IF s # <<>> /\ s[Len(s)] \in {"%", "fwpct"} THEN SubSeq(s, 1, Len(s) - 1) ELSE s

\* a bare number, optionally followed by a percent glyph
IsBareNumber(s) ==
    PlainNumber(NumberOf(s)) /\ FloatOk(Replace(NumberOf(s), <<",">>, <<>>))

\* C14: when a row is interpreted and gives a record, each of its cells that
\* is a bare number (optionally followed by a percent glyph) after
\* normalization is held by the record as the parsed number, whatever the
\* column's pending slot held, and the slot is empty afterwards
C14_BareNumberIsNumeric ==
    [][Len(extracted_records') = Len(extracted_records) + 1 =>
          \A c \in 2..Len(final_column_headers) :
              IsBareNumber(Normalize(rows_seen'[Len(rows_seen')][c])) =>
                  /\ extracted_records'[Len(extracted_records')][final_column_headers[c]]
                        = ParseFloat(Replace(NumberOf(Normalize(rows_seen'[Len(rows_seen')][c])),
                                             <<",">>, <<>>))
                  /\ persistent_pending_range_starts'[final_column_headers[c]] = NoneV]_vars

----------------------------------------------------------------------------
(* Claims about the inheritance of header names *)

\* the header text, after its unit phrase is stripped, is empty or suffix-only
InheritsName(text) ==
    \/ Replace(Replace(Replace(StripUnitPhrase(text), <<" ">>, <<>>),
                       <<"fwsp">>, <<>>), <<"NL">>, <<>>) = <<>>
    \/ IsSuffixOnly(StripUnitPhrase(text))

\* the base name of a final name: its unit or percent suffix removed, and a
\* collision suffix _k after that suffix removed with it
BaseNameOf(name) ==
    IF /\ Len(name) > 2
       /\ name[Len(name) - 1] = "_"
       /\ name[Len(name)] \in Digits
       /\ StripSuffix(SubSeq(name, 1, Len(name) - 2)) # SubSeq(name, 1, Len(name) - 2)
    THEN StripSuffix(SubSeq(name, 1, Len(name) - 2))
    ELSE StripSuffix(name)

\* C15: a data column that has a previous data column and whose header text,
\* after unit phrases are stripped, is empty or suffix-only is named by the
\* base name of the previous column and the suffix zou-gen-ritsu (percent
\* change), up to the numeric suffix that resolves a collision; also when its
\* header was a unit phrase alone, and when the previous name has a collision
\* suffix
C15_InheritedPercentChange ==
    \A c \in 2..Len(header_texts) :
        InheritsName(header_texts[c]) =>
            \/ final_column_headers[c + 1]
                  = BaseNameOf(final_column_headers[c]) \o <<"_">> \o Zougenritsu
            \/ \E k \in 1..c :
                   final_column_headers[c + 1]
                     = BaseNameOf(final_column_headers[c]) \o <<"_">> \o Zougenritsu
                       \o <<"_">> \o DecStr(k)

----------------------------------------------------------------------------
(* extract_all_tables_as_df as a state machine: one action per table of a
   page, one per page *)

MaxPages == 2
MaxPageTables == 3

\* the titles get_table_title finds: none, and two captions
DirectTitles == {NoneV, StrV(KeieiSeiseki), StrV(GyousekiYosou)}

\* the distance from the bottom of a table to the top of the next one
TableGaps == {69, 70}

\* a table of a page: its top and bottom edges (table_bbox) and the title
\* found directly above it
PageTable(table_y0, table_y1, found_direct_title) ==
    [table_y0 |-> table_y0, table_y1 |-> table_y1,
     found_direct_title |-> found_direct_title]

\* lines 249-251, at the first page
InitExtract ==
    /\ page_tables = << <<>> >>
    /\ assigned_titles = << <<>> >>
    /\ page_idx = 1
    /\ table_in_page_idx = 0
    /\ previous_table_title = <<>>
    /\ previous_table_y1 = NegInf
    /\ HeadersIdle
    /\ RowsIdle
    /\ ParseIdle
    /\ ExpandIdle
    /\ TitleIdle
    /\ AnalyzeIdle
    /\ NormalizeIdle

extractOthers == <<headerVars, rowVars, parseVars, expandVars, titleVars,
                   analyzeVars, normVars>>

\* lines 258-282 for the table t, the next one down the page
ExtractTable(t) ==
    /\ page_tables' = [page_tables EXCEPT ![page_idx] = Append(@, t)]
    /\ assigned_titles' = [assigned_titles EXCEPT ![page_idx] =
            Append(@, AssignedTitle(t.found_direct_title, previous_table_title,
                                    previous_table_y1, t.table_y0))]
    /\ previous_table_title' = NextPreviousTitle(t.found_direct_title, previous_table_title)
    /\ previous_table_y1' = Finite(t.table_y1)
    /\ table_in_page_idx' = table_in_page_idx + 1
    /\ UNCHANGED <<page_idx, extractOthers>>

\* the page has one more table, a gap below the last one (line 256: the
\* tables are taken top to bottom)
NextTable ==
    /\ table_in_page_idx < MaxPageTables
    /\ \E gap \in TableGaps, d \in DirectTitles :
           ExtractTable(PageTable(
               (IF table_in_page_idx = 0 THEN 0
                ELSE page_tables[page_idx][table_in_page_idx].table_y1) + gap,
               (IF table_in_page_idx = 0 THEN 0
                ELSE page_tables[page_idx][table_in_page_idx].table_y1) + gap + 30,
               d))

\* lines 249-251: the next page starts
NextPage ==
    /\ page_idx < MaxPages
    /\ page_idx' = page_idx + 1
    /\ page_tables' = Append(page_tables, <<>>)
    /\ assigned_titles' = Append(assigned_titles, <<>>)
    /\ table_in_page_idx' = 0
    /\ previous_table_title' = <<>>
    /\ previous_table_y1' = NegInf
    /\ UNCHANGED extractOthers

SpecExtract == InitExtract /\ [][NextTable \/ NextPage]_vars

----------------------------------------------------------------------------
(* Claims about the titles extract_all_tables_as_df assigns *)

\* the title the claim gives table i of page p when none was found for it:
\* that of the table before it on the page if the gap between the two is
\* below 70, and the empty title otherwise
InheritedTitle(p, i) ==
    IF i > 1 /\ page_tables[p][i].table_y0 - page_tables[p][i - 1].table_y1 < 70
    THEN assigned_titles[p][i - 1]
    ELSE <<>>

\* C16: a table without a title of its own has the title of the nearest
\* table before it on the page if the gap between them is below 70, and the
\* empty title if that table has none, if the gap is 70 or more, or if it is
\* the first table of its page
C16_TitleInheritance ==
    \A p \in 1..Len(page_tables) : \A i \in 1..Len(page_tables[p]) :
        page_tables[p][i].found_direct_title = NoneV =>
            assigned_titles[p][i] = InheritedTitle(p, i)

====
